---- MODULE Spec2Model ----
(***************************************************************************)
(* Sweet Bonanza demo client: the mock outcome generator (MockGameAPI:     *)
(* cluster detection, tumble loop, multiplier and free-spin accounting)    *)
(* and the client state machine that plays its results (GameStateManager). *)
(*                                                                         *)
(* Units.  Money is counted in half-cents, so that the payout tiers        *)
(* (0.5, 1, 2, ...) times a bet in cents stay integers: a tumble step's    *)
(* winAmount is kept in half bet-units (payout * 2), a bet in cents, and   *)
(* winData.totalWin and the balances in half-cents.  Math.random() is an   *)
(* input: a symbol draw is the integer part of Math.random() * 100, a      *)
(* multiplier draw the integer part of Math.random() * 15.                 *)
(***************************************************************************)
EXTENDS Integers, Sequences, FiniteSets, TLC

VARIABLES
    \* harnesses around the pure functions
    inGrid,        \* detector harness: the grid of symbol ids under test
    outClusters,   \* detector harness: what MockGameAPI.detectClusters returned
    gmClusters,    \* detector harness: what GridManager.detectClusters returned
    totalPayout,   \* detector harness: what calculateWin returned, in half bet-units
    called,        \* detector harness: the calls made so far
    lastParams,    \* resolver harness: params of the pending or last call
    draws,         \* resolver harness: the Math.random() draws of that call
    outcome,       \* resolver harness: what generateDemoOutcome returned
    \* MockGameAPI
    mockBalance,   \* balance, in half-cents
    spinCounter,
    history,       \* newest first; an entry is [spinId, betAmount, winAmount]
    \* GridManager
    gmGrid,        \* grid: a sprite or null per cell
    \* GameStateManager
    currentState,
    previousState,
    balance,       \* in half-cents
    currentBet,    \* in cents
    anteBetEnabled,
    freeSpinsRemaining,
    freeSpinsAccumulatedMultiplier,
    autoplayEnabled,
    autoplayRemaining,
    autoplayStopConditions,
    currentSpinData,
    totalSpins,
    \* the requestSpin call in flight
    pc,            \* the await requestSpin is suspended at ("idle": none in flight)
    tumbleCursor,  \* index of the tumble the for-loop of processTumbleSequence is at
    apiCall,       \* the gameAPI.requestSpin promise: request, and result once resolved
    sessionStarted, \* GameScene.initializeSession has run
    \* what the scene has seen, oldest first
    exchanges,     \* the spin requests answered by the API, each with its answer
    emitted,       \* the events emitted on scene.events
    shownErrors,   \* the messages GameScene.showError was called with
    spinEnabled,   \* what gameUI.setSpinEnabled was last called with
    scheduled,     \* the delayedCall(1000, handleSpin) timers that have not fired
    uncaught,      \* the messages of the errors thrown out of the UI event handlers
    \* GameAPI, the client of the backend
    apiKey,        \* "": none configured
    sessionToken,  \* "": null
    playerId,      \* "": null
    pending,       \* the calls sent and not yet answered
    apiLog,        \* the requests sent and the answers received, oldest first
    lastResult     \* what the call answered last returned or threw

harnessVars == <<inGrid, outClusters, gmClusters, totalPayout, called, lastParams, draws,
                 outcome>>
mockVars == <<mockBalance, spinCounter, history>>
settingVars == <<currentBet, anteBetEnabled>>
flowVars == <<currentState, previousState, freeSpinsRemaining, freeSpinsAccumulatedMultiplier,
              autoplayEnabled, autoplayRemaining, autoplayStopConditions, pc, tumbleCursor>>
gsmVars == <<balance, currentSpinData, totalSpins, apiCall, sessionStarted>>

sceneVars == <<exchanges, emitted, shownErrors>>
uiVars == <<spinEnabled, scheduled, uncaught>>
apiVars == <<apiKey, sessionToken, playerId, pending, apiLog, lastResult>>

vars == <<harnessVars, mockVars, gmGrid, settingVars, flowVars, gsmVars, sceneVars, uiVars, apiVars>>

(***************************************************************************)
(* Program constants                                                       *)
(***************************************************************************)
COLS == 6
ROWS == 5
MIN_CLUSTER_SIZE == 8
SCATTER == 9
MULTIPLIER == 10
TUMBLE_CAP == 5
\* BET_SETTINGS.DEFAULT_BET, in cents
DEFAULT_BET == 100
\* the demo balance MockGameAPI starts with, in half-cents
INITIAL_BALANCE == 200000
\* the number of entries MockGameAPI.history is cut to
HISTORY_CAP == 50
\* FREE_SPINS awarded by a trigger
FREE_SPINS_AWARDED == 10
\* BET_SETTINGS.MIN_BET and MAX_BET, in cents
MIN_BET == 20
MAX_BET == 10000
\* the spins GameScene.handleAutoplayToggle starts autoplay with
AUTOPLAY_SPINS == 10

Cells == [col : 0..(COLS - 1), row : 0..(ROWS - 1)]
Pos(c, r) == [col |-> c, row |-> r]
SymbolIds == 0..10
PaySymbols == 0..8

(***************************************************************************)
(* Bounds of the model                                                     *)
(***************************************************************************)
\* longest period of a periodic stream of symbol draws filling a grid
MaxPeriod == 5

\* Math.random() * 100 (integer part) values the draws are taken from:
\* banana, grapes, scatter, the value that is a scatter only under ante,
\* and the multiplier bomb
RandReps == {0, 5, 85, 92, 95}

\* one Math.random() * 100 value per pay symbol, 0 (banana) to 8
PayReps == {0, 5, 10, 15, 20, 25, 40, 55, 70}

RECURSIVE SeqsUpTo(_, _)
SeqsUpTo(S, n) ==
    IF n = 0 THEN {<<>>}
    ELSE LET shorter == SeqsUpTo(S, n - 1)
         IN  shorter \cup {Append(s, x) : s \in {t \in shorter : Len(t) = n - 1}, x \in S}

(***************************************************************************)
(* MockGameAPI.getRandomSymbol / generateGrid                              *)
(***************************************************************************)
getRandomSymbol(anteBet, rand) ==
    IF rand < 5 THEN 0
    ELSE IF rand < 10 THEN 1
    ELSE IF rand < 15 THEN 2
    ELSE IF rand < 20 THEN 3
    ELSE IF rand < 25 THEN 4
    ELSE IF rand < 40 THEN 5
    ELSE IF rand < 55 THEN 6
    ELSE IF rand < 70 THEN 7
    ELSE IF rand < 85 THEN 8
    ELSE IF rand < (IF anteBet THEN 95 ELSE 92) THEN SCATTER
    ELSE MULTIPLIER

(***************************************************************************)
(* MockGameAPI.floodFill: breadth-first over an explicit queue; marks the  *)
(* cells it collects in visited and returns them in the order collected.   *)
(***************************************************************************)
\* mutant: cells touching at a corner are enqueued as well
NeighboursWithDiagonals(p) ==
    << Pos(p.col + 1, p.row), Pos(p.col - 1, p.row),
       Pos(p.col, p.row + 1), Pos(p.col, p.row - 1),
       Pos(p.col + 1, p.row + 1), Pos(p.col - 1, p.row - 1),
       Pos(p.col + 1, p.row - 1), Pos(p.col - 1, p.row + 1) >>

Neighbours(p) ==
    << Pos(p.col + 1, p.row), Pos(p.col - 1, p.row),
       Pos(p.col, p.row + 1), Pos(p.col, p.row - 1) >>

\* mutant: the last row is out of bounds
RejectedFromLastRow(grid, targetSymbol, visited, p) ==
    \/ p.col < 0 \/ p.col >= COLS \/ p.row < 0 \/ p.row >= ROWS - 1
    \/ visited[p.col][p.row]
    \/ grid[p.col][p.row] # targetSymbol

\* what the loop's three "continue" tests reject when an entry is dequeued
Rejected(grid, targetSymbol, visited, p) ==
    \/ p.col < 0 \/ p.col >= COLS \/ p.row < 0 \/ p.row >= ROWS
    \/ visited[p.col][p.row]
    \/ grid[p.col][p.row] # targetSymbol

\* One unfolding per collected cell: the entries dequeued and rejected before
\* it change nothing, so they are dropped together.
RECURSIVE floodFillLoop(_, _, _, _, _)
floodFillLoop(grid, targetSymbol, visited, positions, queue) ==
    LET live == {i \in 1..Len(queue) : ~Rejected(grid, targetSymbol, visited, queue[i])}
    IN  IF live = {} THEN [positions |-> positions, visited |-> visited]
        ELSE LET i == CHOOSE j \in live : \A l \in live : j <= l
                 p == queue[i]
                 rest == SubSeq(queue, i + 1, Len(queue))
             IN  floodFillLoop(grid, targetSymbol,
                               [visited EXCEPT ![p.col][p.row] = TRUE],
                               Append(positions, p),
                               rest \o Neighbours(p))

floodFill(grid, startCol, startRow, targetSymbol, visited) ==
    floodFillLoop(grid, targetSymbol, visited, <<>>, <<Pos(startCol, startRow)>>)

(***************************************************************************)
(* MockGameAPI.detectClusters: column-major scan, k = col * ROWS + row     *)
(***************************************************************************)
\* mutant: the multiplier is not skipped
IsSpecialScatterOnly(symbolId) == symbolId = SCATTER

IsSpecial(symbolId) == symbolId = SCATTER \/ symbolId = MULTIPLIER

\* mutant: the threshold is off by one
MeetsMinimumOffByOne(n) == n >= MIN_CLUSTER_SIZE - 1

MeetsMinimum(n) == n >= MIN_CLUSTER_SIZE

RECURSIVE detectScan(_, _, _, _)
detectScan(grid, k, visited, clusters) ==
    IF k >= COLS * ROWS THEN clusters
    ELSE LET col == k \div ROWS
             row == k % ROWS
             symbolId == grid[col][row]
         IN  IF visited[col][row] THEN detectScan(grid, k + 1, visited, clusters)
             ELSE IF IsSpecial(symbolId)
                 THEN detectScan(grid, k + 1, [visited EXCEPT ![col][row] = TRUE], clusters)
             ELSE LET ff == floodFill(grid, col, row, symbolId, visited)
                  IN  detectScan(grid, k + 1, ff.visited,
                          IF MeetsMinimum(Len(ff.positions))
                              THEN Append(clusters, [symbolId |-> symbolId,
                                                     positions |-> ff.positions,
                                                     size |-> Len(ff.positions)])
                              ELSE clusters)

detectClusters(grid) ==
    detectScan(grid, 0, [col \in 0..(COLS - 1) |-> [row \in 0..(ROWS - 1) |-> FALSE]], <<>>)

(***************************************************************************)
(* Streams of Math.random() draws.  A stream is a head followed by a cycle *)
(* repeated for ever; the i-th draw (from 0) is StreamAt(st, i).           *)
(***************************************************************************)
Stream(head, cycle) == [head |-> head, cycle |-> cycle]

StreamAt(st, i) ==
    IF i < Len(st.head) THEN st.head[i + 1]
    ELSE st.cycle[((i - Len(st.head)) % Len(st.cycle)) + 1]

\* the stream st after n draws have been taken from it
RECURSIVE Advance(_, _)
Advance(st, n) ==
    IF n = 0 THEN st
    ELSE IF Len(st.head) > 0 THEN Advance(Stream(Tail(st.head), st.cycle), n - 1)
    ELSE Advance(Stream(<<>>, Tail(st.cycle) \o <<Head(st.cycle)>>), n - 1)

\* generateGrid from a stream of symbol draws
generateGridFrom(anteBet, st) ==
    [col \in 0..(COLS - 1) |->
        [row \in 0..(ROWS - 1) |-> getRandomSymbol(anteBet, StreamAt(st, col * ROWS + row))]]

(***************************************************************************)
(* MockGameAPI.findMultipliers: one value drawn per multiplier cell, in    *)
(* column-major order; mults is the stream of Math.random() * 15 draws.    *)
(***************************************************************************)
multiplierValues == <<2, 3, 4, 5, 6, 7, 8, 9, 10, 12, 15, 20, 25, 50, 100>>

CellSeq == [k \in 1..(COLS * ROWS) |-> Pos((k - 1) \div ROWS, (k - 1) % ROWS)]

\* mutant: only the first multiplier cell is collected
findFirstMultiplier(grid, mults) ==
    LET cells == SelectSeq(CellSeq, LAMBDA p : grid[p.col][p.row] = MULTIPLIER)
    IN  [k \in 1..(IF Len(cells) > 0 THEN 1 ELSE 0) |->
            [col |-> cells[k].col, row |-> cells[k].row,
             value |-> multiplierValues[StreamAt(mults, k - 1) + 1]]]

findMultipliers(grid, mults) ==
    LET cells == SelectSeq(CellSeq, LAMBDA p : grid[p.col][p.row] = MULTIPLIER)
    IN  [k \in 1..Len(cells) |->
            [col |-> cells[k].col, row |-> cells[k].row,
             value |-> multiplierValues[StreamAt(mults, k - 1) + 1]]]

RECURSIVE SumValues(_)
SumValues(ms) == IF Len(ms) = 0 THEN 0 ELSE Head(ms).value + SumValues(Tail(ms))

(***************************************************************************)
(* MockGameAPI.calculateWin: the size tiers, in half bet-units (payout * 2)*)
(* betAmount is a parameter of the code that the code never reads.         *)
(***************************************************************************)
\* mutant: the tier of 12 to 14 pays as the tier of 10 and 11
Payout2WithoutThirdTier(size) ==
    IF size >= 8 /\ size < 10 THEN 1
    ELSE IF size >= 10 /\ size < 15 THEN 2
    ELSE IF size >= 15 /\ size < 20 THEN 10
    ELSE IF size >= 20 /\ size < 25 THEN 20
    ELSE IF size >= 25 THEN 40
    ELSE 0

Payout2(size) ==
    IF size >= 8 /\ size < 10 THEN 1
    ELSE IF size >= 10 /\ size < 12 THEN 2
    ELSE IF size >= 12 /\ size < 15 THEN 4
    ELSE IF size >= 15 /\ size < 20 THEN 10
    ELSE IF size >= 20 /\ size < 25 THEN 20
    ELSE IF size >= 25 THEN 40
    ELSE 0

RECURSIVE calculateWin(_, _)
calculateWin(clusters, betAmount) ==
    IF Len(clusters) = 0 THEN 0
    ELSE Payout2(Head(clusters).size) + calculateWin(Tail(clusters), betAmount)

(***************************************************************************)
(* MockGameAPI.processTumbles                                              *)
(***************************************************************************)
\* the positions of all clusters, each listed once, in order of appearance
RECURSIVE AddPositions(_, _)
AddPositions(removePositions, positions) ==
    IF Len(positions) = 0 THEN removePositions
    ELSE AddPositions(
             IF \E i \in DOMAIN removePositions : removePositions[i] = Head(positions)
                 THEN removePositions
                 ELSE Append(removePositions, Head(positions)),
             Tail(positions))

RECURSIVE RemovePositions(_, _)
RemovePositions(removePositions, clusters) ==
    IF Len(clusters) = 0 THEN removePositions
    ELSE RemovePositions(AddPositions(removePositions, Head(clusters).positions),
                         Tail(clusters))

\* mutant: the new symbols are listed from the last removed position back
NewSymbolsLastFirst(removePositions, anteBet, refill) ==
    [i \in 1..Len(removePositions) |->
        [col |-> removePositions[Len(removePositions) + 1 - i].col,
         row |-> removePositions[Len(removePositions) + 1 - i].row,
         symbolId |-> getRandomSymbol(anteBet, StreamAt(refill, i - 1))]]

\* one new symbol drawn per removed position, in order
NewSymbols(removePositions, anteBet, refill) ==
    [i \in 1..Len(removePositions) |->
        [col |-> removePositions[i].col, row |-> removePositions[i].row,
         symbolId |-> getRandomSymbol(anteBet, StreamAt(refill, i - 1))]]

\* currentGrid after newSymbols.forEach(ns => currentGrid[ns.col][ns.row] = ns.symbolId)
UpdateGrid(currentGrid, newSymbols) ==
    [col \in 0..(COLS - 1) |-> [row \in 0..(ROWS - 1) |->
        LET hits == {i \in DOMAIN newSymbols :
                        newSymbols[i].col = col /\ newSymbols[i].row = row}
        IN  IF hits = {} THEN currentGrid[col][row]
            ELSE newSymbols[CHOOSE i \in hits : \A j \in hits : j <= i].symbolId]]

\* mutant: the loop runs once more
MoreTumblesOffByOne(tumbleIndex) == tumbleIndex <= TUMBLE_CAP

\* the loop's guard
MoreTumbles(tumbleIndex) == tumbleIndex < TUMBLE_CAP

\* rnd.mult and rnd.refill are the draws not yet taken
RECURSIVE tumbleLoop(_, _, _, _, _)
tumbleLoop(currentGrid, tumbleIndex, tumbles, params, rnd) ==
    IF ~MoreTumbles(tumbleIndex) THEN tumbles
    ELSE LET clusters == detectClusters(currentGrid)
         IN  IF Len(clusters) = 0 THEN tumbles
             ELSE LET multipliers == findMultipliers(currentGrid, rnd.mult)
                      winAmount == calculateWin(clusters, params.betAmount)
                      removePositions == RemovePositions(<<>>, clusters)
                      newSymbols == NewSymbols(removePositions, params.anteBet, rnd.refill)
                  IN  tumbleLoop(
                          UpdateGrid(currentGrid, newSymbols),
                          tumbleIndex + 1,
                          Append(tumbles,
                                 [tumbleIndex |-> tumbleIndex,
                                  clusters |-> clusters,
                                  multipliers |-> multipliers,
                                  winAmount |-> winAmount,
                                  multiplier |-> IF Len(multipliers) > 0
                                                     THEN SumValues(multipliers) ELSE 1,
                                  removePositions |-> removePositions,
                                  newSymbols |-> newSymbols]),
                          params,
                          [rnd EXCEPT !.mult = Advance(@, Len(multipliers)),
                                      !.refill = Advance(@, Len(removePositions))])

processTumbles(initialGrid, params, rnd) == tumbleLoop(initialGrid, 0, <<>>, params, rnd)

\* mutant: the loop works on the caller's grid itself, which is left as the
\* last refill made it
GridSharedWithLoop(initialGrid, tumbles) ==
    IF Len(tumbles) = 0 THEN initialGrid
    ELSE LET RECURSIVE put(_, _)
             put(g, k) == IF k > Len(tumbles) THEN g
                          ELSE put(UpdateGrid(g, tumbles[k].newSymbols), k + 1)
         IN  put(initialGrid, 1)

\* the caller's grid once processTumbles has returned: currentGrid is a deep
\* copy (JSON.parse(JSON.stringify(initialGrid))), and detectClusters and
\* floodFill only read the grid, so it is as it was passed
GridAfterProcessTumbles(initialGrid, tumbles) == initialGrid

(***************************************************************************)
(* MockGameAPI.countScatters / generateDemoOutcome                         *)
(***************************************************************************)
\* mutant: multiplier symbols are counted as well
countScattersAndMultipliers(grid) ==
    Cardinality({p \in Cells : grid[p.col][p.row] \in {SCATTER, MULTIPLIER}})

countScatters(grid) ==
    Cardinality({p \in Cells : grid[p.col][p.row] = SCATTER})

RECURSIVE SumWins(_)
SumWins(tumbles) == IF Len(tumbles) = 0 THEN 0 ELSE Head(tumbles).winAmount + SumWins(Tail(tumbles))

RECURSIVE AllMultipliers(_)
AllMultipliers(tumbles) ==
    IF Len(tumbles) = 0 THEN <<>>
    ELSE Head(tumbles).multipliers \o AllMultipliers(Tail(tumbles))

RECURSIVE AllClusters(_)
AllClusters(tumbles) ==
    IF Len(tumbles) = 0 THEN <<>>
    ELSE Head(tumbles).clusters \o AllClusters(Tail(tumbles))

\* mutant: the number of the call leaks into the win
generateDemoOutcomeCountingCalls(params, rnd, spinId) ==
    LET grid == generateGridFrom(params.anteBet, rnd.grid)
        tumbles == processTumbles(grid, params, rnd)
        allMultipliers == AllMultipliers(tumbles)
        applies == params.isFreeSpins /\ Len(allMultipliers) > 0
        finalMultiplier == IF applies
                               THEN params.accumulatedMultiplier + SumValues(allMultipliers)
                               ELSE 1
        totalWin == IF applies THEN SumWins(tumbles) * finalMultiplier ELSE SumWins(tumbles)
        freeSpinsTriggered == countScatters(grid) >= 4
    IN  [spinId |-> spinId,
         grid |-> grid,
         tumbles |-> tumbles,
         winData |-> [clusters |-> AllClusters(tumbles),
                      totalWin |-> (totalWin + spinId) * params.betAmount,
                      multipliers |-> allMultipliers,
                      finalMultiplier |-> finalMultiplier],
         freeSpins |-> [triggered |-> freeSpinsTriggered,
                        remaining |-> IF freeSpinsTriggered THEN FREE_SPINS_AWARDED ELSE 0,
                        totalAwarded |-> IF freeSpinsTriggered THEN FREE_SPINS_AWARDED ELSE 0,
                        retriggered |-> FALSE]]

\* spinId is 'spin_' + n, kept as n; totalWin is in half-cents
generateDemoOutcome(params, rnd, spinId) ==
    LET grid == generateGridFrom(params.anteBet, rnd.grid)
        tumbles == processTumbles(grid, params, rnd)
        sumWins == SumWins(tumbles)
        allMultipliers == AllMultipliers(tumbles)
        applies == params.isFreeSpins /\ Len(allMultipliers) > 0
        finalMultiplier == IF applies
                               THEN params.accumulatedMultiplier + SumValues(allMultipliers)
                               ELSE 1
        totalWin == IF applies THEN sumWins * finalMultiplier ELSE sumWins
        scatterCount == countScatters(grid)
        freeSpinsTriggered == scatterCount >= 4
    IN  [spinId |-> spinId,
         grid |-> GridAfterProcessTumbles(grid, tumbles),
         tumbles |-> tumbles,
         winData |-> [clusters |-> AllClusters(tumbles),
                      totalWin |-> totalWin * params.betAmount,
                      multipliers |-> allMultipliers,
                      finalMultiplier |-> finalMultiplier],
         freeSpins |-> [triggered |-> freeSpinsTriggered,
                        remaining |-> IF freeSpinsTriggered THEN FREE_SPINS_AWARDED ELSE 0,
                        totalAwarded |-> IF freeSpinsTriggered THEN FREE_SPINS_AWARDED ELSE 0,
                        retriggered |-> FALSE]]

(***************************************************************************)
(* GridManager: the displayed grid of sprites and its own cluster detector *)
(***************************************************************************)
NullSprite == [null |-> TRUE]
Sprite(symbolId) == [symbolId |-> symbolId]

EmptyGrid == [col \in 0..(COLS - 1) |-> [row \in 0..(ROWS - 1) |-> NullSprite]]

\* GridManager.populateGrid: one new sprite per cell of gridData
populateGrid(gridData) ==
    [col \in 0..(COLS - 1) |-> [row \in 0..(ROWS - 1) |-> Sprite(gridData[col][row])]]

\* mutant: scatter and multiplier sprites are not skipped
gmRejectedKeepingSpecials(grid, symbolId, visited, p) ==
    \/ p.col < 0 \/ p.col >= COLS \/ p.row < 0 \/ p.row >= ROWS
    \/ visited[p.col][p.row]
    \/ grid[p.col][p.row] = NullSprite
    \/ grid[p.col][p.row].symbolId # symbolId

\* the tests under which GridManager.floodFill skips a dequeued entry
gmRejected(grid, symbolId, visited, p) ==
    \/ p.col < 0 \/ p.col >= COLS \/ p.row < 0 \/ p.row >= ROWS
    \/ visited[p.col][p.row]
    \/ grid[p.col][p.row] = NullSprite
    \/ grid[p.col][p.row].symbolId # symbolId
    \/ IsSpecial(grid[p.col][p.row].symbolId)

RECURSIVE gmFloodFillLoop(_, _, _, _, _)
gmFloodFillLoop(grid, symbolId, visited, positions, queue) ==
    LET live == {i \in 1..Len(queue) : ~gmRejected(grid, symbolId, visited, queue[i])}
    IN  IF live = {}
            THEN [cluster |-> [symbolId |-> symbolId, positions |-> positions,
                               size |-> Len(positions)],
                  visited |-> visited]
        ELSE LET i == CHOOSE j \in live : \A l \in live : j <= l
                 p == queue[i]
                 rest == SubSeq(queue, i + 1, Len(queue))
             IN  gmFloodFillLoop(grid, symbolId,
                                 [visited EXCEPT ![p.col][p.row] = TRUE],
                                 Append(positions, p),
                                 rest \o Neighbours(p))

gmFloodFill(grid, startCol, startRow, visited) ==
    gmFloodFillLoop(grid, grid[startCol][startRow].symbolId, visited, <<>>,
                    <<Pos(startCol, startRow)>>)

RECURSIVE gmDetectScan(_, _, _, _)
gmDetectScan(grid, k, visited, clusters) ==
    IF k >= COLS * ROWS THEN clusters
    ELSE LET col == k \div ROWS
             row == k % ROWS
         IN  IF ~visited[col][row] /\ grid[col][row] # NullSprite
                 THEN LET ff == gmFloodFill(grid, col, row, visited)
                      IN  gmDetectScan(grid, k + 1, ff.visited,
                              IF MeetsMinimum(Len(ff.cluster.positions))
                                  THEN Append(clusters, ff.cluster)
                                  ELSE clusters)
                 ELSE gmDetectScan(grid, k + 1, visited, clusters)

gmDetectClusters(grid) ==
    gmDetectScan(grid, 0, [col \in 0..(COLS - 1) |-> [row \in 0..(ROWS - 1) |-> FALSE]], <<>>)

(***************************************************************************)
(* Detector harness: a grid as generateGrid can produce it; the displayed  *)
(* grid is populated from it; each detector is called once.                *)
(***************************************************************************)
GridDraws == SeqsUpTo(RandReps, MaxPeriod) \ {<<>>}

NoParams == [none |-> TRUE]
NoDraws == [none |-> TRUE]
NoCall == [status |-> "none"]
\* autoplayStopConditions = {}: every condition is falsy
NoStopConditions == [onAnyWin |-> FALSE, onFreeSpins |-> FALSE, onSingleWinExceeds |-> 0]
NoOutcome == [none |-> TRUE]

\* the objects as their constructors leave them
Constructed ==
    /\ mockBalance = INITIAL_BALANCE
    /\ spinCounter = 0
    /\ history = <<>>
    /\ gmGrid = EmptyGrid
    /\ currentState = "IDLE"
    /\ previousState = "null"
    /\ balance = 0
    /\ currentBet = DEFAULT_BET
    /\ anteBetEnabled = FALSE
    /\ freeSpinsRemaining = 0
    /\ freeSpinsAccumulatedMultiplier = 1
    /\ autoplayEnabled = FALSE
    /\ autoplayRemaining = 0
    /\ autoplayStopConditions = NoStopConditions
    /\ currentSpinData = NoOutcome
    /\ totalSpins = 0
    /\ pc = "idle"
    /\ tumbleCursor = 0
    /\ spinEnabled = TRUE
    /\ scheduled = 0
    /\ uncaught = <<>>
    /\ apiCall = NoCall
    /\ sessionStarted = FALSE
    /\ exchanges = <<>>
    /\ emitted = <<>>
    /\ shownErrors = <<>>

NoResult == [none |-> TRUE]

\* GameAPI as its constructor leaves it, no call made
GameAPIConstructed ==
    /\ sessionToken = ""
    /\ playerId = ""
    /\ pending = {}
    /\ apiLog = <<>>
    /\ lastResult = NoResult

\* no harness call made
HarnessIdle ==
    /\ inGrid = generateGridFrom(FALSE, Stream(<<>>, <<0>>))
    /\ outClusters = <<>>
    /\ gmClusters = <<>>
    /\ totalPayout = 0
    /\ called = {}
    /\ lastParams = NoParams
    /\ draws = NoDraws
    /\ outcome = NoOutcome

InitDetect ==
    /\ Constructed
    /\ GameAPIConstructed /\ apiKey = ""
    /\ inGrid \in {generateGridFrom(a, Stream(<<>>, p)) : a \in BOOLEAN, p \in GridDraws}
                   \cup {generateGridFrom(FALSE, Stream(<<>>, <<r>>)) : r \in PayReps}
    /\ outClusters = <<>>
    /\ gmClusters = <<>>
    /\ totalPayout = 0
    /\ called = {}
    /\ lastParams = NoParams
    /\ draws = NoDraws
    /\ outcome = NoOutcome

MockDetect ==
    /\ "mock" \notin called
    /\ outClusters' = detectClusters(inGrid)
    /\ called' = called \cup {"mock"}
    /\ UNCHANGED <<inGrid, gmClusters, totalPayout, lastParams, draws, outcome>>
    /\ UNCHANGED <<mockVars, gmGrid, settingVars, flowVars, gsmVars, sceneVars, apiVars, uiVars>>

Populate ==
    /\ "populate" \notin called
    /\ gmGrid' = populateGrid(inGrid)
    /\ called' = called \cup {"populate"}
    /\ UNCHANGED <<inGrid, outClusters, gmClusters, totalPayout, lastParams, draws, outcome>>
    /\ UNCHANGED <<mockVars, settingVars, flowVars, gsmVars, sceneVars, apiVars, uiVars>>

GridDetect ==
    /\ "populate" \in called
    /\ "grid" \notin called
    /\ gmClusters' = gmDetectClusters(gmGrid)
    /\ called' = called \cup {"grid"}
    /\ UNCHANGED <<inGrid, outClusters, totalPayout, lastParams, draws, outcome>>
    /\ UNCHANGED <<mockVars, gmGrid, settingVars, flowVars, gsmVars, sceneVars, apiVars, uiVars>>

\* calculateWin on the clusters detectClusters returned, as processTumbles
\* calls it
CalculateWin ==
    /\ "mock" \in called
    /\ "win" \notin called
    /\ totalPayout' = calculateWin(outClusters, DEFAULT_BET)
    /\ called' = called \cup {"win"}
    /\ UNCHANGED <<inGrid, outClusters, gmClusters, lastParams, draws, outcome>>
    /\ UNCHANGED <<mockVars, gmGrid, settingVars, flowVars, gsmVars, sceneVars, apiVars, uiVars>>

NextDetect == MockDetect \/ Populate \/ GridDetect \/ CalculateWin

SpecDetect == InitDetect /\ [][NextDetect]_vars

(***************************************************************************)
(* Resolver harness: generateDemoOutcome is called with params and draws;  *)
(* a free-spin call may be followed by another free-spin call that is      *)
(* handed the finalMultiplier just returned as its accumulatedMultiplier.  *)
(***************************************************************************)
\* bets in cents: 0.20 and 1.00 of BET_LEVELS
Bets == {20, 100}

\* longest cycle of the stream that fills the initial grid
MaxCycle == 3
\* calls in one chain of the harness
MaxCalls == 2

\* Math.random() * 100 values: 0 is a banana, 85 a scatter, 95 a multiplier
\* bomb, and 92 a bomb that the ante bet turns into a scatter
CycleReps == {0, 85, 92}

\* the first cells of the grid: as the cycle, one bomb, three or four scatters,
\* one bomb and four scatters
GridHeads == {<<>>, <<95>>, <<85, 85, 85>>, <<85, 85, 85, 85>>,
              <<95, 85, 85, 85, 85>>}

SpinGridStreams ==
    {Stream(h, c) : h \in GridHeads, c \in SeqsUpTo(CycleReps, MaxCycle) \ {<<>>}}

\* refills: bananas for ever (a new cluster after every refill), one bomb and
\* then bananas, scatters for ever
RefillStreams == {Stream(<<>>, <<0>>), Stream(<<95>>, <<0>>), Stream(<<>>, <<85>>)}

\* Math.random() * 15 values: always 0 (value 2), or 1 and 14 in turn (3, 100)
MultStreams == {Stream(<<>>, <<0>>), Stream(<<>>, <<1, 14>>)}

DrawSet == [grid : SpinGridStreams, mult : MultStreams, refill : RefillStreams]

\* the draws of a follow-up call: a grid without cluster, a grid of bananas,
\* a grid of bananas with one bomb; the refill ends the cascade
FollowUpDraws ==
    [grid : {Stream(<<>>, <<0, 85>>), Stream(<<>>, <<0>>), Stream(<<95>>, <<0>>)},
     mult : {Stream(<<>>, <<0>>)},
     refill : {Stream(<<>>, <<85>>)}]

InitResolve ==
    /\ Constructed
    /\ GameAPIConstructed /\ apiKey = ""
    /\ inGrid = generateGridFrom(FALSE, Stream(<<>>, <<0>>))
    /\ outClusters = <<>>
    /\ gmClusters = <<>>
    /\ totalPayout = 0
    /\ called = {}
    /\ lastParams \in [betAmount : Bets, anteBet : BOOLEAN, isFreeSpins : BOOLEAN,
                       accumulatedMultiplier : {1}]
    /\ draws \in DrawSet
    /\ outcome = NoOutcome

GenerateDemoOutcome ==
    /\ outcome = NoOutcome
    /\ spinCounter' = spinCounter + 1
    /\ outcome' = generateDemoOutcome(lastParams, draws, spinCounter + 1)
    /\ UNCHANGED <<inGrid, outClusters, gmClusters, totalPayout, called, lastParams, draws>>
    /\ UNCHANGED <<mockBalance, history, gmGrid, settingVars, flowVars, gsmVars, sceneVars, apiVars, uiVars>>

NextFreeSpinCall ==
    /\ outcome # NoOutcome
    /\ lastParams.isFreeSpins
    /\ spinCounter < MaxCalls
    /\ lastParams' = [lastParams EXCEPT
                          !.accumulatedMultiplier = outcome.winData.finalMultiplier]
    /\ draws' \in FollowUpDraws
    /\ outcome' = NoOutcome
    /\ UNCHANGED <<inGrid, outClusters, gmClusters, totalPayout, called>>
    /\ UNCHANGED <<mockVars, gmGrid, settingVars, flowVars, gsmVars, sceneVars, apiVars, uiVars>>

\* generateDemoOutcome is called once more with the params and the draws of
\* the call that has returned
RepeatCall ==
    /\ outcome # NoOutcome
    /\ spinCounter < MaxCalls
    /\ spinCounter' = spinCounter + 1
    /\ outcome' = generateDemoOutcome(lastParams, draws, spinCounter + 1)
    /\ UNCHANGED <<inGrid, outClusters, gmClusters, totalPayout, called, lastParams, draws>>
    /\ UNCHANGED <<mockBalance, history, gmGrid, settingVars, flowVars, gsmVars, sceneVars, apiVars, uiVars>>

NextResolve == GenerateDemoOutcome \/ NextFreeSpinCall \/ RepeatCall

SpecResolve == InitResolve /\ [][NextResolve]_vars

(***************************************************************************)
(* GridManager: what a spin's playback does to the displayed grid          *)
(***************************************************************************)
clearGrid == EmptyGrid

\* the sprite at each listed position is exploded and its cell set to null
removeSymbols(grid, positions) ==
    [col \in 0..(COLS - 1) |-> [row \in 0..(ROWS - 1) |->
        IF \E i \in DOMAIN positions : positions[i] = Pos(col, row)
            THEN NullSprite
            ELSE grid[col][row]]]

\* mutant: the loop stops before the last update
updateGridWithoutLast(grid, updates) ==
    [col \in 0..(COLS - 1) |-> [row \in 0..(ROWS - 1) |->
        LET hits == {i \in 1..(Len(updates) - 1) :
                        updates[i].col = col /\ updates[i].row = row}
        IN  IF hits = {} THEN grid[col][row]
            ELSE Sprite(updates[CHOOSE i \in hits : \A j \in hits : j <= i].symbolId)]]

\* GridManager.getGridState: the symbol id of each cell's sprite, null (written
\* -1) for a cell without sprite
getGridState(grid) ==
    [col \in 0..(COLS - 1) |-> [row \in 0..(ROWS - 1) |->
        IF grid[col][row] = NullSprite THEN -1 ELSE grid[col][row].symbolId]]

\* a new sprite in each listed cell; the last update of a cell stays
updateGrid(grid, updates) ==
    [col \in 0..(COLS - 1) |-> [row \in 0..(ROWS - 1) |->
        LET hits == {i \in DOMAIN updates : updates[i].col = col /\ updates[i].row = row}
        IN  IF hits = {} THEN grid[col][row]
            ELSE Sprite(updates[CHOOSE i \in hits : \A j \in hits : j <= i].symbolId)]]

\* the cells removed from the displayed grid before it is searched: the
\* middle row, the third column, or one corner
GapChoices ==
    { [i \in 1..COLS |-> Pos(i - 1, 2)],
      [i \in 1..ROWS |-> Pos(2, i - 1)],
      <<Pos(0, 0)>> }

\* GridManager.removeSymbols on the populated grid, before detectClusters
RemoveBeforeDetect ==
    /\ "populate" \in called
    /\ called \cap {"grid", "remove"} = {}
    /\ \E positions \in GapChoices : gmGrid' = removeSymbols(gmGrid, positions)
    /\ called' = called \cup {"remove"}
    /\ UNCHANGED <<inGrid, outClusters, gmClusters, totalPayout, lastParams, draws, outcome>>
    /\ UNCHANGED <<mockVars, settingVars, flowVars, gsmVars, sceneVars, apiVars, uiVars>>

NextGaps == MockDetect \/ Populate \/ RemoveBeforeDetect \/ GridDetect

\* the detector harness with cells removed from the displayed grid
SpecGaps == InitDetect /\ [][NextGaps]_vars

(***************************************************************************)
(* The game: GameScene drives GameStateManager, which asks MockGameAPI for *)
(* each outcome and plays it back on GridManager.  requestSpin is an async *)
(* function: pc is the await it is suspended at, and each action below is  *)
(* the code that runs from one await to the next.                          *)
(***************************************************************************)
\* bound: spins requested in one run
MaxSpins == 12

\* the Math.random() draws of one base-game call: scatters without a cluster
\* (a trigger on a grid that does not tumble), bananas with one bomb and four
\* scatters (a win, a multiplier and a trigger), no cluster and no scatter
\* around one bomb
BaseDraws ==
    { [grid |-> Stream(<<>>, <<0, 85>>), mult |-> Stream(<<>>, <<0>>),
       refill |-> Stream(<<>>, <<85>>)],
      [grid |-> Stream(<<95, 85, 85, 85, 85>>, <<0>>), mult |-> Stream(<<>>, <<0>>),
       refill |-> Stream(<<>>, <<85>>)],
      [grid |-> Stream(<<95>>, <<0, 5>>), mult |-> Stream(<<>>, <<0>>),
       refill |-> Stream(<<>>, <<85>>)] }

\* the draws of one free-spin call: bananas with one bomb (a win and a
\* multiplier), the same with four scatters (a trigger during the session),
\* one bomb among bananas and grapes in turn (no cluster)
FreeSpinDraws ==
    { [grid |-> Stream(<<95>>, <<0>>), mult |-> Stream(<<>>, <<0>>),
       refill |-> Stream(<<>>, <<85>>)],
      [grid |-> Stream(<<95, 85, 85, 85, 85>>, <<0>>), mult |-> Stream(<<>>, <<0>>),
       refill |-> Stream(<<>>, <<85>>)],
      [grid |-> Stream(<<95>>, <<0, 5>>), mult |-> Stream(<<>>, <<0>>),
       refill |-> Stream(<<>>, <<85>>)] }

\* mutant: the ante bet costs nothing more
StakeWithoutAnteCost(betAmount, anteBet) == betAmount * 2

\* money in half-cents of betAmount cents, at the ante-bet cost or not
Stake(betAmount, anteBet) == IF anteBet THEN (betAmount * 5) \div 2 ELSE betAmount * 2

\* the draws of a call that win nothing, and those of them that do not trigger
WithoutCluster(anteBet, D) ==
    {rnd \in D : Len(detectClusters(generateGridFrom(anteBet, rnd.grid))) = 0}
WithoutScatter(anteBet, D) ==
    {rnd \in D : countScatters(generateGridFrom(anteBet, rnd.grid)) = 0}

\* the draws enumerated for a call.  To bound the runs: a trigger during the
\* session is drawn on the session's first spin only and a free spin without
\* cluster on its second, and at another bet than the default no spin
\* triggers during the session, a base-game spin wins nothing, and it triggers
\* only when its bet takes the last of the balance.
DrawsFor(spinRequest) ==
    LET atDefault == spinRequest.betAmount = DEFAULT_BET
        lastBet == mockBalance - Stake(spinRequest.betAmount, spinRequest.anteBet)
                       < Stake(spinRequest.betAmount, spinRequest.anteBet)
    IN  IF spinRequest.isFreeSpins
            THEN IF spinRequest.freeSpinsRemaining = FREE_SPINS_AWARDED - 1
                     THEN WithoutScatter(spinRequest.anteBet, FreeSpinDraws)
                 ELSE IF atDefault /\ spinRequest.freeSpinsRemaining = FREE_SPINS_AWARDED
                     THEN FreeSpinDraws \ WithoutCluster(spinRequest.anteBet, FreeSpinDraws)
                 ELSE WithoutScatter(spinRequest.anteBet, FreeSpinDraws)
                          \ WithoutCluster(spinRequest.anteBet, FreeSpinDraws)
        ELSE IF atDefault THEN BaseDraws
        ELSE IF lastBet THEN WithoutCluster(spinRequest.anteBet, BaseDraws)
        ELSE WithoutScatter(spinRequest.anteBet,
                            WithoutCluster(spinRequest.anteBet, BaseDraws))

\* scene.events.emit('stateChanged', { from, to })
StateChanged(from, to) == [name |-> "stateChanged", from |-> from, to |-> to]

\* GameScene.initializeSession: the session's balance is the API's
InitSession ==
    /\ ~sessionStarted
    /\ sessionStarted' = TRUE
    /\ balance' = mockBalance
    /\ previousState' = currentState
    /\ currentState' = "IDLE"
    /\ emitted' = Append(emitted, StateChanged(currentState, "IDLE"))
    /\ UNCHANGED <<harnessVars, apiVars, uiVars, mockVars, gmGrid, settingVars>>
    /\ UNCHANGED <<freeSpinsRemaining, freeSpinsAccumulatedMultiplier, autoplayEnabled,
                   autoplayRemaining, autoplayStopConditions, pc, tumbleCursor>>
    /\ UNCHANGED <<currentSpinData, totalSpins, apiCall, exchanges, shownErrors>>

\* the balance check with the free spins left out
InsufficientEvenInFreeSpins(bal, betAmount, remaining) == bal < betAmount

\* mutant: requestSpin without its balance check
InsufficientOnlyWhenBroke(bal, betAmount, remaining) == bal < 0 /\ remaining = 0

\* GameStateManager.requestSpin: this.balance < betAmount &&
\* this.freeSpinsRemaining === 0, betAmount being the stake with the ante cost
InsufficientBalance(bal, betAmount, remaining) == bal < betAmount /\ remaining = 0

\* GameStateManager.requestSpin from setState(SPINNING) to its first await
StartSpin ==
    /\ previousState' = currentState
    /\ currentState' = "SPINNING"
    /\ emitted' = Append(emitted, StateChanged(currentState, "SPINNING"))
    /\ apiCall' = [status |-> "pending",
                   spinRequest |-> [betAmount |-> currentBet,
                                    anteBet |-> anteBetEnabled,
                                    isFreeSpins |-> freeSpinsRemaining > 0,
                                    freeSpinsRemaining |-> freeSpinsRemaining,
                                    accumulatedMultiplier |-> freeSpinsAccumulatedMultiplier]]
    /\ pc' = "awaitApi"
    /\ UNCHANGED <<harnessVars, apiVars, mockVars, gmGrid, settingVars>>
    /\ UNCHANGED <<freeSpinsRemaining, freeSpinsAccumulatedMultiplier, autoplayEnabled,
                   autoplayRemaining, autoplayStopConditions, tumbleCursor>>
    /\ UNCHANGED <<balance, currentSpinData, totalSpins, sessionStarted, exchanges,
                   shownErrors, uncaught>>

\* GameScene.handleSpin: the button is disabled, and requestSpin runs up to its
\* first await, when it does not throw
RequestSpin ==
    /\ totalSpins < MaxSpins
    /\ pc = "idle"
    /\ currentState = "IDLE"
    /\ ~InsufficientBalance(balance, Stake(currentBet, anteBetEnabled), freeSpinsRemaining)
    /\ StartSpin
    /\ spinEnabled' = FALSE
    /\ UNCHANGED scheduled

\* history.unshift(entry), cut to the newest HISTORY_CAP
Unshift(hist, entry) ==
    LET h == <<entry>> \o hist
    IN  IF Len(h) > HISTORY_CAP THEN SubSeq(h, 1, HISTORY_CAP) ELSE h

\* MockGameAPI.requestSpin from the outcome on: the win is added to the balance
\* the bet was taken from, the spin goes into the history, the promise resolves
Respond(req, afterBet, out) ==
    /\ spinCounter' = spinCounter + 1
    /\ mockBalance' = afterBet + out.winData.totalWin
    /\ history' = Unshift(history, [spinId |-> out.spinId,
                                    betAmount |-> req.betAmount,
                                    winAmount |-> out.winData.totalWin])
    /\ apiCall' = [status |-> "resolved", spinRequest |-> req,
                   spinData |-> out,
                   balance |-> afterBet + out.winData.totalWin]

\* MockGameAPI.requestSpin, after its delay, with its draws one of D
MockAnswers(D) ==
    /\ \E rnd \in D :
          Respond(apiCall.spinRequest,
                  IF apiCall.spinRequest.isFreeSpins THEN mockBalance
                  ELSE mockBalance - Stake(apiCall.spinRequest.betAmount,
                                           apiCall.spinRequest.anteBet),
                  generateDemoOutcome(
                      [betAmount |-> apiCall.spinRequest.betAmount,
                       anteBet |-> apiCall.spinRequest.anteBet,
                       isFreeSpins |-> apiCall.spinRequest.isFreeSpins,
                       accumulatedMultiplier |->
                           IF apiCall.spinRequest.accumulatedMultiplier = 0
                               THEN 1 ELSE apiCall.spinRequest.accumulatedMultiplier],
                      rnd, spinCounter + 1))
    /\ UNCHANGED <<harnessVars, apiVars, uiVars, gmGrid, settingVars, flowVars, sceneVars>>
    /\ UNCHANGED <<balance, currentSpinData, totalSpins, sessionStarted>>

MockRequestSpin ==
    /\ apiCall.status = "pending"
    /\ MockAnswers(DrawsFor(apiCall.spinRequest))

\* GameStateManager.setState on the record of the fields a spin's playback writes
setState(st, newState) ==
    [st EXCEPT !.previousState = st.currentState,
               !.currentState = newState,
               !.emitted = Append(@, StateChanged(st.currentState, newState))]

\* scene.events.emit(...) on that record
emit(st, event) == [st EXCEPT !.emitted = Append(@, event)]

\* mutant: the free spins condition is not looked at
shouldStopAutoplayOnWinsOnly(conditions, spinData) ==
    \/ conditions.onAnyWin /\ spinData.winData.totalWin > 0
    \/ conditions.onSingleWinExceeds # 0
           /\ spinData.winData.totalWin >= conditions.onSingleWinExceeds

\* GameStateManager.shouldStopAutoplay
shouldStopAutoplay(conditions, spinData) ==
    \/ conditions.onAnyWin /\ spinData.winData.totalWin > 0
    \/ conditions.onFreeSpins /\ spinData.freeSpins.triggered
    \/ conditions.onSingleWinExceeds # 0
           /\ spinData.winData.totalWin >= conditions.onSingleWinExceeds

\* GameStateManager.stopAutoplay
stopAutoplay(st) ==
    emit([st EXCEPT !.autoplayEnabled = FALSE, !.autoplayRemaining = 0],
         [name |-> "autoplayStop"])

\* mutant: the spin that triggers is counted as the first free spin
updateFreeSpinsCountingTheTrigger(remaining, freeSpins) ==
    IF freeSpins.triggered THEN freeSpins.remaining - 1
    ELSE IF remaining > 0 THEN remaining - 1
    ELSE remaining

\* requestSpin's "Update free spins"
updateFreeSpins(remaining, freeSpins) ==
    IF freeSpins.triggered THEN freeSpins.remaining
    ELSE IF remaining > 0 THEN remaining - 1
    ELSE remaining

\* mutant: requestSpin ends without its setState(IDLE)
completeSpinWithoutIdle(st, spinData) ==
    LET counted == updateFreeSpins(st.freeSpinsRemaining, spinData.freeSpins)
        left == st.autoplayRemaining - 1
        stop == left <= 0 \/ shouldStopAutoplay(st.autoplayStopConditions, spinData)
        s1 == [st EXCEPT !.freeSpinsRemaining = counted, !.pc = "idle", !.tumbleCursor = 0]
    IN  IF ~st.autoplayEnabled THEN s1
        ELSE IF stop THEN stopAutoplay(s1)
        ELSE [s1 EXCEPT !.autoplayRemaining = left]

\* the end of requestSpin, once executeSpinSequence has returned: the free
\* spins counter, the autoplay counter, and IDLE
completeSpin(st, spinData) ==
    LET counted == updateFreeSpins(st.freeSpinsRemaining, spinData.freeSpins)
        left == st.autoplayRemaining - 1
        stop == left <= 0 \/ shouldStopAutoplay(st.autoplayStopConditions, spinData)
        s1 == [st EXCEPT !.freeSpinsRemaining = counted, !.pc = "idle", !.tumbleCursor = 0]
        s2 == IF ~st.autoplayEnabled THEN s1
              ELSE IF stop THEN stopAutoplay(s1)
              ELSE [s1 EXCEPT !.autoplayRemaining = left]
    IN  setState(s2, "IDLE")

\* GameScene.handleSpin once requestSpin has returned: with autoplay on and
\* spins left the next handleSpin is scheduled, otherwise the button is enabled
afterRequestSpin(st) ==
    IF st.autoplayEnabled /\ st.autoplayRemaining > 0
        THEN [st EXCEPT !.scheduled = @ + 1]
        ELSE [st EXCEPT !.spinEnabled = TRUE]

\* showFinalWin's win type, from the win (half-cents) over the current bet (cents)
winType(winAmount) ==
    IF winAmount >= 100 * 2 * currentBet THEN "mega"
    ELSE IF winAmount >= 25 * 2 * currentBet THEN "big"
    ELSE "normal"

\* mutant: the multipliers are accumulated in the base game as well
accumulatedInBaseGameToo(acc, remaining, multipliers) == acc + SumValues(multipliers)

\* showMultipliers' "Update accumulated multiplier in free spins"
accumulated(acc, remaining, multipliers) ==
    IF remaining > 0 THEN acc + SumValues(multipliers) ELSE acc

\* processTumbleSequence from the point `at` to its next await, or through the
\* end of requestSpin: the record of the fields as that code leaves them.
\* "tumble" is the top of the loop body for tumble number st.tumbleCursor.
RECURSIVE runFrom(_, _, _)
runFrom(at, st, spinData) ==
    LET tumbles == spinData.tumbles
        tumble == tumbles[st.tumbleCursor]
    IN  CASE at = "tumble" ->
                 IF st.tumbleCursor > Len(tumbles) THEN runFrom("finalWin", st, spinData)
                 ELSE IF Len(tumble.clusters) > 0
                     THEN [setState(st, "CHECKING_WIN") EXCEPT !.pc = "awaitHighlight"]
                     ELSE runFrom("multipliers", setState(st, "CHECKING_WIN"), spinData)
          [] at = "highlighted" ->
                 runFrom("multipliers",
                         IF tumble.winAmount > 0
                             THEN emit(st, [name |-> "winUpdate",
                                            amount |-> tumble.winAmount,
                                            multiplier |-> tumble.multiplier])
                             ELSE st,
                         spinData)
          [] at = "multipliers" ->
                 IF Len(tumble.multipliers) = 0 THEN runFrom("remove", st, spinData)
                 ELSE LET value == accumulated(st.freeSpinsAccumulatedMultiplier,
                                               st.freeSpinsRemaining, tumble.multipliers)
                          shown == IF st.freeSpinsRemaining > 0
                                       THEN emit(st, [name |-> "multiplierUpdate",
                                                      value |-> value])
                                       ELSE st
                      IN  [shown EXCEPT !.freeSpinsAccumulatedMultiplier = value,
                                        !.pc = "awaitMultiplierShow"]
          [] at = "remove" ->
                 [setState(st, "TUMBLING") EXCEPT
                      !.grid = removeSymbols(@, tumble.removePositions),
                      !.pc = "awaitRemove"]
          [] at = "finalWin" ->
                 IF spinData.winData.totalWin > 0
                     THEN [emit(st, [name |-> "finalWin",
                                     amount |-> spinData.winData.totalWin,
                                     multiplier |-> spinData.winData.finalMultiplier,
                                     type |-> winType(spinData.winData.totalWin)])
                              EXCEPT !.pc = "awaitFinalWin"]
                     ELSE runFrom("trigger", st, spinData)
          [] at = "trigger" ->
                 IF spinData.freeSpins.triggered
                     THEN [emit(setState(st, "FREE_SPINS"),
                                [name |-> "freeSpinsTrigger",
                                 spins |-> spinData.freeSpins.totalAwarded,
                                 retriggered |-> spinData.freeSpins.retriggered])
                              EXCEPT !.freeSpinsAccumulatedMultiplier =
                                         IF spinData.freeSpins.retriggered THEN @ ELSE 1,
                                     !.pc = "awaitTrigger"]
                     ELSE afterRequestSpin(completeSpin(st, spinData))
          [] at = "complete" -> afterRequestSpin(completeSpin(st, spinData))

\* the fields a spin's playback writes, as they are now
Fields ==
    [currentState |-> currentState, previousState |-> previousState,
     freeSpinsRemaining |-> freeSpinsRemaining,
     freeSpinsAccumulatedMultiplier |-> freeSpinsAccumulatedMultiplier,
     autoplayEnabled |-> autoplayEnabled, autoplayRemaining |-> autoplayRemaining,
     autoplayStopConditions |-> autoplayStopConditions,
     pc |-> pc, tumbleCursor |-> tumbleCursor, grid |-> gmGrid, emitted |-> emitted,
     spinEnabled |-> spinEnabled, scheduled |-> scheduled]

\* the suspended requestSpin resumes at `at` and runs to its next await
Resume(at, st) ==
    LET r == runFrom(at, st, currentSpinData)
    IN  /\ currentState' = r.currentState
        /\ previousState' = r.previousState
        /\ freeSpinsRemaining' = r.freeSpinsRemaining
        /\ freeSpinsAccumulatedMultiplier' = r.freeSpinsAccumulatedMultiplier
        /\ autoplayEnabled' = r.autoplayEnabled
        /\ autoplayRemaining' = r.autoplayRemaining
        /\ autoplayStopConditions' = r.autoplayStopConditions
        /\ pc' = r.pc
        /\ tumbleCursor' = r.tumbleCursor
        /\ gmGrid' = r.grid
        /\ emitted' = r.emitted
        /\ spinEnabled' = r.spinEnabled
        /\ scheduled' = r.scheduled
        /\ UNCHANGED <<harnessVars, apiVars, mockVars, settingVars, gsmVars, exchanges, shownErrors,
                       uncaught>>

\* what the scene keeps of an answered request
Exchange(call) ==
    [spinRequest |-> call.spinRequest,
     balance |-> call.balance,
     totalWin |-> call.spinData.winData.totalWin,
     multipliers |-> call.spinData.winData.multipliers,
     tumbles |-> Len(call.spinData.tumbles),
     freeSpins |-> call.spinData.freeSpins]

\* requestSpin resumes with the API's answer; executeSpinSequence clears the
\* grid and populates it
SpinDataReceived ==
    /\ pc = "awaitApi"
    /\ apiCall.status = "resolved"
    /\ currentSpinData' = apiCall.spinData
    /\ balance' = apiCall.balance
    /\ totalSpins' = totalSpins + 1
    /\ apiCall' = NoCall
    /\ exchanges' = Append(exchanges, Exchange(apiCall))
    /\ gmGrid' = populateGrid(apiCall.spinData.grid)
    /\ pc' = "awaitPopulate"
    /\ UNCHANGED <<harnessVars, apiVars, uiVars, mockVars, settingVars, sessionStarted, emitted, shownErrors>>
    /\ UNCHANGED <<currentState, previousState, freeSpinsRemaining,
                   freeSpinsAccumulatedMultiplier, autoplayEnabled, autoplayRemaining,
                   autoplayStopConditions, tumbleCursor>>

\* processTumbleSequence starts: without tumbles it returns at once (the
\* outcome's clusters are those of its tumbles, so there is no win to show)
AfterPopulate ==
    /\ pc = "awaitPopulate"
    /\ IF Len(currentSpinData.tumbles) = 0
           THEN Resume("complete", Fields)
           ELSE Resume("tumble", [Fields EXCEPT !.tumbleCursor = 1])

\* highlightWins is done
AfterHighlight ==
    /\ pc = "awaitHighlight"
    /\ Resume("highlighted", Fields)

\* showMultipliers is done
AfterMultiplierShow ==
    /\ pc = "awaitMultiplierShow"
    /\ Resume("remove", Fields)

\* removeSymbols is done; the tumble delay starts
AfterRemove ==
    /\ pc = "awaitRemove"
    /\ pc' = "awaitTumbleDelay"
    /\ UNCHANGED <<harnessVars, apiVars, uiVars, mockVars, gmGrid, settingVars, gsmVars, sceneVars>>
    /\ UNCHANGED <<currentState, previousState, freeSpinsRemaining,
                   freeSpinsAccumulatedMultiplier, autoplayEnabled, autoplayRemaining,
                   autoplayStopConditions, tumbleCursor>>

\* the tumble delay is over; updateGrid drops the new symbols in
AfterTumbleDelay ==
    /\ pc = "awaitTumbleDelay"
    /\ gmGrid' = updateGrid(gmGrid, currentSpinData.tumbles[tumbleCursor].newSymbols)
    /\ pc' = "awaitRefill"
    /\ UNCHANGED <<harnessVars, apiVars, uiVars, mockVars, settingVars, gsmVars, sceneVars>>
    /\ UNCHANGED <<currentState, previousState, freeSpinsRemaining,
                   freeSpinsAccumulatedMultiplier, autoplayEnabled, autoplayRemaining,
                   autoplayStopConditions, tumbleCursor>>

\* updateGrid is done; the loop goes to the next tumble
AfterRefill ==
    /\ pc = "awaitRefill"
    /\ Resume("tumble", [Fields EXCEPT !.tumbleCursor = @ + 1])

\* showFinalWin is done
AfterFinalWin ==
    /\ pc = "awaitFinalWin"
    /\ Resume("trigger", Fields)

\* triggerFreeSpins is done
AfterTrigger ==
    /\ pc = "awaitTrigger"
    /\ Resume("complete", Fields)

(***************************************************************************)
(* The player's controls: GameScene's handlers of the UI events            *)
(***************************************************************************)
\* BET_SETTINGS.BET_LEVELS, in cents
BET_LEVELS == <<20, 40, 60, 80, 100, 200, 300, 400, 500, 1000, 2000, 5000, 10000>>

\* levels.indexOf(bet), counted from 1 (0: not a level)
IndexOf(bet) ==
    IF \E i \in DOMAIN BET_LEVELS : BET_LEVELS[i] = bet
        THEN CHOOSE i \in DOMAIN BET_LEVELS : BET_LEVELS[i] = bet
        ELSE 0

\* bound: rejected spins shown as errors in one run
MaxErrors == 1

\* the errors shown for a spin that requestSpin rejected before it started
Rejections ==
    Cardinality({i \in DOMAIN shownErrors :
                    shownErrors[i] \in {"Cannot spin - game not in idle state",
                                        "Insufficient balance"}})

\* bounds on the player: the controls are used once the session is
\* initialised and, but for the spin button, while no spin is in flight; the
\* settings are chosen before the first spin and before any error, the ante
\* bet before the bet, and the bet is moved in one direction only
ControlsOpen == sessionStarted /\ pc = "idle"
SettingsOpen == ControlsOpen /\ totalSpins = 0 /\ shownErrors = <<>> /\ currentState = "IDLE"
BetEvents == SelectSeq(emitted, LAMBDA e : e.name = "betChanged")
AnteEvents == SelectSeq(emitted, LAMBDA e : e.name = "anteBetChanged")

\* mutant: setBet without its state check
setBetErrorIgnoringState(amount) ==
    IF amount < MIN_BET \/ amount > MAX_BET THEN "Invalid bet amount"
    ELSE ""

\* mutant: setBet without its range check
setBetErrorIgnoringRange(amount) ==
    IF currentState # "IDLE" THEN "Cannot change bet while game is running"
    ELSE ""

\* the error GameStateManager.setBet throws ("": it throws none)
setBetError(amount) ==
    IF currentState # "IDLE" THEN "Cannot change bet while game is running"
    ELSE IF amount < MIN_BET \/ amount > MAX_BET THEN "Invalid bet amount"
    ELSE ""

\* GameStateManager.setBet, when it does not throw
setBet(amount) ==
    /\ setBetError(amount) = ""
    /\ currentBet' = amount
    /\ emitted' = Append(emitted, [name |-> "betChanged", amount |-> amount])
    /\ UNCHANGED <<harnessVars, apiVars, uiVars, mockVars, gmGrid, anteBetEnabled, flowVars, gsmVars,
                   exchanges, shownErrors>>

\* GameScene.handleIncreaseBet
HandleIncreaseBet ==
    /\ SettingsOpen
    /\ \A i \in DOMAIN BetEvents : BetEvents[i].amount > DEFAULT_BET
    /\ IndexOf(currentBet) < Len(BET_LEVELS)
    /\ setBet(BET_LEVELS[IndexOf(currentBet) + 1])

\* GameScene.handleDecreaseBet
HandleDecreaseBet ==
    /\ SettingsOpen
    /\ \A i \in DOMAIN BetEvents : BetEvents[i].amount < DEFAULT_BET
    /\ IndexOf(currentBet) > 1
    /\ setBet(BET_LEVELS[IndexOf(currentBet) - 1])

\* GameScene.handleAnteBetToggle / GameStateManager.setAnteBet
HandleAnteBetToggle ==
    /\ SettingsOpen
    /\ BetEvents = <<>> /\ AnteEvents = <<>>
    /\ anteBetEnabled' = ~anteBetEnabled
    /\ emitted' = Append(emitted, [name |-> "anteBetChanged", enabled |-> ~anteBetEnabled])
    /\ UNCHANGED <<harnessVars, apiVars, uiVars, mockVars, gmGrid, currentBet, flowVars, gsmVars,
                   exchanges, shownErrors>>

\* mutant: requestSpin without its state check
requestSpinErrorIgnoringState ==
    IF InsufficientBalance(balance, Stake(currentBet, anteBetEnabled),
                           freeSpinsRemaining)
        THEN "Insufficient balance"
    ELSE ""

\* the error GameStateManager.requestSpin throws before its first await
\* ("": it throws none)
requestSpinError ==
    IF currentState # "IDLE" THEN "Cannot spin - game not in idle state"
    ELSE IF InsufficientBalance(balance, Stake(currentBet, anteBetEnabled),
                                freeSpinsRemaining)
        THEN "Insufficient balance"
    ELSE ""

\* GameScene.handleSpin's catch: the message is shown, the button is enabled
handleSpinThrows(message) ==
    /\ shownErrors' = Append(shownErrors, message)
    /\ spinEnabled' = TRUE
    /\ UNCHANGED <<harnessVars, apiVars, mockVars, gmGrid, settingVars, flowVars, gsmVars,
                   exchanges, emitted, uncaught>>

\* GameScene.handleSpin when requestSpin throws
HandleSpinRejected ==
    /\ Rejections < MaxErrors
    /\ ControlsOpen
    /\ requestSpinError # ""
    /\ handleSpinThrows(requestSpinError)
    /\ UNCHANGED scheduled

\* GameScene.handleAutoplayToggle with autoplay on: stopAutoplay
handleAutoplayToggleStops ==
    /\ autoplayEnabled' = FALSE
    /\ autoplayRemaining' = 0
    /\ emitted' = Append(emitted, [name |-> "autoplayStop"])
    /\ UNCHANGED <<harnessVars, apiVars, uiVars, mockVars, gmGrid, settingVars, gsmVars, exchanges,
                   shownErrors>>
    /\ UNCHANGED <<currentState, previousState, freeSpinsRemaining,
                   freeSpinsAccumulatedMultiplier, autoplayStopConditions, pc,
                   tumbleCursor>>

AutoplayToggleOff ==
    /\ ControlsOpen
    /\ autoplayEnabled
    /\ handleAutoplayToggleStops

\* GameScene.handleAutoplayToggle with autoplay off: startAutoplay(10, {
\* onFreeSpins: true }) and then handleSpin, whose requestSpin finds the state
\* AUTOPLAY and throws
handleAutoplayToggleStarts ==
    /\ autoplayEnabled' = TRUE
    /\ autoplayRemaining' = AUTOPLAY_SPINS
    /\ autoplayStopConditions' = [NoStopConditions EXCEPT !.onFreeSpins = TRUE]
    /\ previousState' = currentState
    /\ currentState' = "AUTOPLAY"
    /\ emitted' = emitted \o
                   << StateChanged(currentState, "AUTOPLAY"),
                      [name |-> "autoplayStart", spins |-> AUTOPLAY_SPINS,
                       stopConditions |-> [NoStopConditions EXCEPT !.onFreeSpins = TRUE]] >>
    /\ shownErrors' = Append(shownErrors, "Cannot spin - game not in idle state")
    /\ spinEnabled' = TRUE
    /\ UNCHANGED <<scheduled, uncaught>>
    /\ UNCHANGED <<harnessVars, apiVars, mockVars, gmGrid, settingVars, gsmVars, exchanges>>
    /\ UNCHANGED <<freeSpinsRemaining, freeSpinsAccumulatedMultiplier, pc, tumbleCursor>>

AutoplayToggleOn ==
    /\ Rejections < MaxErrors
    /\ ControlsOpen
    /\ ~autoplayEnabled
    /\ handleAutoplayToggleStarts

Init ==
    /\ Constructed
    /\ HarnessIdle
    /\ GameAPIConstructed /\ apiKey = ""

Next ==
    \/ InitSession
    \/ RequestSpin
    \/ MockRequestSpin
    \/ SpinDataReceived
    \/ AfterPopulate
    \/ AfterHighlight
    \/ AfterMultiplierShow
    \/ AfterRemove
    \/ AfterTumbleDelay
    \/ AfterRefill
    \/ AfterFinalWin
    \/ AfterTrigger
    \/ HandleIncreaseBet
    \/ HandleDecreaseBet
    \/ HandleAnteBetToggle
    \/ HandleSpinRejected
    \/ AutoplayToggleOff
    \/ AutoplayToggleOn

Spec == Init /\ [][Next]_vars

(***************************************************************************)
(* The player who does not wait: the spin and autoplay buttons are used    *)
(* while a spin is in flight, and autoplay's scheduled spins run.  The bet *)
(* stays at its default.                                                   *)
(***************************************************************************)
\* bound: spins in one run of this player
MaxPlaySpins == 3

DuringSpin == sessionStarted /\ pc # "idle"

\* the spin button while no spin is in flight
PlayRequestSpin ==
    /\ totalSpins < MaxPlaySpins
    /\ RequestSpin

\* the spin button during a spin: handleSpin, whose requestSpin throws when
\* the state is not IDLE.  (Were it to pass, the model follows the new call.)
HandleSpinDuringSpin ==
    /\ DuringSpin
    /\ IF requestSpinError # ""
           THEN /\ Rejections < MaxErrors
                /\ handleSpinThrows(requestSpinError)
           ELSE /\ totalSpins < MaxPlaySpins
                /\ StartSpin
                /\ spinEnabled' = FALSE
    /\ UNCHANGED scheduled

\* the autoplay button during a spin
AutoplayToggleOnDuringSpin ==
    /\ Rejections < MaxErrors
    /\ DuringSpin
    /\ ~autoplayEnabled
    /\ handleAutoplayToggleStarts

AutoplayToggleOffDuringSpin ==
    /\ DuringSpin
    /\ autoplayEnabled
    /\ handleAutoplayToggleStops

\* the timer of handleSpin's delayedCall fires: handleSpin
DelayedHandleSpin ==
    /\ scheduled > 0
    /\ scheduled' = scheduled - 1
    /\ IF requestSpinError # ""
           THEN /\ Rejections < MaxErrors
                /\ handleSpinThrows(requestSpinError)
           ELSE /\ totalSpins < MaxPlaySpins
                /\ StartSpin
                /\ spinEnabled' = FALSE

NextPlay ==
    \/ InitSession
    \/ PlayRequestSpin
    \/ MockRequestSpin
    \/ SpinDataReceived
    \/ AfterPopulate
    \/ AfterHighlight
    \/ AfterMultiplierShow
    \/ AfterRemove
    \/ AfterTumbleDelay
    \/ AfterRefill
    \/ AfterFinalWin
    \/ AfterTrigger
    \/ AutoplayToggleOff
    \/ AutoplayToggleOn
    \/ HandleSpinDuringSpin
    \/ AutoplayToggleOnDuringSpin
    \/ AutoplayToggleOffDuringSpin
    \/ DelayedHandleSpin

SpecPlay == Init /\ [][NextPlay]_vars

(***************************************************************************)
(* Spins of more than one tumble step, with the buttons used during them   *)
(***************************************************************************)
\* the draws of a base-game call that tumbles twice: bananas everywhere, then
\* grapes in every cell, then scatters
TumblingDraws ==
    { [grid |-> Stream(<<>>, <<0>>), mult |-> Stream(<<>>, <<0>>),
       refill |-> Stream([i \in 1..(COLS * ROWS) |-> 5], <<85>>)] }

\* the draws of a free-spin call that tumbles twice around one bomb: bananas,
\* then grapes, then scatters
FreeTumblingDraws ==
    { [grid |-> Stream(<<95>>, <<0>>), mult |-> Stream(<<1>>, <<0>>),
       refill |-> Stream([i \in 1..(COLS * ROWS - 1) |-> 5], <<85>>)] }

\* MockGameAPI.requestSpin, after its delay: a call may tumble twice
MockRequestSpinTumbling ==
    /\ apiCall.status = "pending"
    /\ MockAnswers(DrawsFor(apiCall.spinRequest)
                       \cup (IF apiCall.spinRequest.isFreeSpins
                                 THEN FreeTumblingDraws ELSE TumblingDraws))

\* bound: spins started with the spin button in one run
MaxTumbleSpins == 2

TumbleRequestSpin ==
    /\ totalSpins < MaxTumbleSpins
    /\ RequestSpin

NextTumble ==
    \/ InitSession
    \/ TumbleRequestSpin
    \/ MockRequestSpinTumbling
    \/ SpinDataReceived
    \/ AfterPopulate
    \/ AfterHighlight
    \/ AfterMultiplierShow
    \/ AfterRemove
    \/ AfterTumbleDelay
    \/ AfterRefill
    \/ AfterFinalWin
    \/ AfterTrigger
    \/ AutoplayToggleOff
    \/ AutoplayToggleOn
    \/ HandleSpinDuringSpin
    \/ AutoplayToggleOnDuringSpin
    \/ AutoplayToggleOffDuringSpin
    \/ DelayedHandleSpin

\* requestSpin's continuations run
SpecTumble ==
    /\ Init /\ [][NextTumble]_vars
    /\ WF_vars(SpinDataReceived)
    /\ WF_vars(AfterPopulate) /\ WF_vars(AfterHighlight)
    /\ WF_vars(AfterMultiplierShow) /\ WF_vars(AfterRemove)
    /\ WF_vars(AfterTumbleDelay) /\ WF_vars(AfterRefill)
    /\ WF_vars(AfterFinalWin) /\ WF_vars(AfterTrigger)

(***************************************************************************)
(* Failures: the API call of a spin is rejected, or a promise its playback *)
(* awaits is; the spin and bet buttons are used afterwards.                *)
(***************************************************************************)
\* bound: errors thrown out of the bet handlers in one run
MaxUncaught == 1

\* requestSpin's catch, setState(ERROR) and the rethrow, and handleSpin's catch
requestSpinFails(message) ==
    /\ previousState' = currentState
    /\ currentState' = "ERROR"
    /\ emitted' = Append(emitted, StateChanged(currentState, "ERROR"))
    /\ pc' = "idle"
    /\ tumbleCursor' = 0
    /\ apiCall' = NoCall
    /\ shownErrors' = Append(shownErrors, message)
    /\ spinEnabled' = TRUE
    /\ UNCHANGED <<harnessVars, apiVars, mockVars, gmGrid, settingVars>>
    /\ UNCHANGED <<freeSpinsRemaining, freeSpinsAccumulatedMultiplier, autoplayEnabled,
                   autoplayRemaining, autoplayStopConditions>>
    /\ UNCHANGED <<balance, currentSpinData, totalSpins, sessionStarted, exchanges,
                   scheduled, uncaught>>

\* gameAPI.requestSpin rejects
ApiCallFails ==
    /\ pc = "awaitApi"
    /\ apiCall.status = "pending"
    /\ requestSpinFails("Spin request failed: Network error - please check your connection")

\* a promise awaited by executeSpinSequence rejects
PlaybackFails ==
    /\ pc \notin {"idle", "awaitApi"}
    /\ requestSpinFails("playback failed")

\* setBet throws out of the bet handler: nothing else happens
setBetThrows(amount) ==
    /\ setBetError(amount) # ""
    /\ Len(uncaught) < MaxUncaught
    /\ uncaught' = Append(uncaught, setBetError(amount))
    /\ UNCHANGED <<harnessVars, apiVars, mockVars, gmGrid, settingVars, flowVars, gsmVars,
                   sceneVars, spinEnabled, scheduled>>

\* GameScene.handleIncreaseBet, pressed while the state is not IDLE
HandleIncreaseBetBusy ==
    /\ sessionStarted
    /\ currentState # "IDLE"
    /\ IndexOf(currentBet) < Len(BET_LEVELS)
    /\ \/ setBetThrows(BET_LEVELS[IndexOf(currentBet) + 1])
       \/ setBet(BET_LEVELS[IndexOf(currentBet) + 1])

\* GameScene.handleDecreaseBet, pressed while the state is not IDLE
HandleDecreaseBetBusy ==
    /\ sessionStarted
    /\ currentState # "IDLE"
    /\ IndexOf(currentBet) > 1
    /\ \/ setBetThrows(BET_LEVELS[IndexOf(currentBet) - 1])
       \/ setBet(BET_LEVELS[IndexOf(currentBet) - 1])

NextFail ==
    \/ InitSession
    \/ PlayRequestSpin
    \/ MockRequestSpin
    \/ SpinDataReceived
    \/ AfterPopulate
    \/ AfterHighlight
    \/ AfterMultiplierShow
    \/ AfterRemove
    \/ AfterTumbleDelay
    \/ AfterRefill
    \/ AfterFinalWin
    \/ AfterTrigger
    \/ ApiCallFails
    \/ PlaybackFails
    \/ HandleSpinRejected
    \/ HandleIncreaseBetBusy
    \/ HandleDecreaseBetBusy
    \/ AutoplayToggleOn
    \/ AutoplayToggleOff

SpecFail == Init /\ [][NextFail]_vars

(***************************************************************************)
(* The bet buttons, pressed at any time and any number of times            *)
(***************************************************************************)
\* bound: accepted bet changes in one run
MaxBetChanges == 8

\* bound: spins played between the bet changes
MaxBetSpins == 1

\* GameScene.handleIncreaseBet
PressIncreaseBet ==
    /\ sessionStarted
    /\ Len(BetEvents) < MaxBetChanges
    /\ IndexOf(currentBet) < Len(BET_LEVELS)
    /\ \/ setBetThrows(BET_LEVELS[IndexOf(currentBet) + 1])
       \/ setBet(BET_LEVELS[IndexOf(currentBet) + 1])

\* GameScene.handleDecreaseBet
PressDecreaseBet ==
    /\ sessionStarted
    /\ Len(BetEvents) < MaxBetChanges
    /\ IndexOf(currentBet) > 1
    /\ \/ setBetThrows(BET_LEVELS[IndexOf(currentBet) - 1])
       \/ setBet(BET_LEVELS[IndexOf(currentBet) - 1])

\* GameStateManager.setBet called with an amount outside [MIN_BET, MAX_BET]
SetBetOutOfRange ==
    /\ sessionStarted
    /\ \E amount \in {0, MIN_BET - 1, MAX_BET + 1} :
          \/ setBetThrows(amount)
          \/ setBet(amount)

BetRequestSpin ==
    /\ totalSpins < MaxBetSpins
    /\ RequestSpin

NextBet ==
    \/ InitSession
    \/ PressIncreaseBet
    \/ PressDecreaseBet
    \/ SetBetOutOfRange
    \/ BetRequestSpin
    \/ MockRequestSpin
    \/ SpinDataReceived
    \/ AfterPopulate
    \/ AfterHighlight
    \/ AfterMultiplierShow
    \/ AfterRemove
    \/ AfterTumbleDelay
    \/ AfterRefill
    \/ AfterFinalWin
    \/ AfterTrigger

SpecBet == Init /\ [][NextBet]_vars

\* requestSpin resumes once the API has answered, and every promise and
\* timer it awaits after that settles
SpecPlayFair ==
    /\ SpecPlay
    /\ WF_vars(SpinDataReceived)
    /\ WF_vars(AfterPopulate) /\ WF_vars(AfterHighlight)
    /\ WF_vars(AfterMultiplierShow) /\ WF_vars(AfterRemove)
    /\ WF_vars(AfterTumbleDelay) /\ WF_vars(AfterRefill)
    /\ WF_vars(AfterFinalWin) /\ WF_vars(AfterTrigger)

(***************************************************************************)
(* GameAPI: the client of the backend.  A call sends its request through   *)
(* the request interceptor and is answered later by the backend's response *)
(* or by a failure; calls may overlap.  The bodies of the requests and the *)
(* placeholder signatures (validateResponseSignature returns true) are     *)
(* left out.                                                               *)
(***************************************************************************)
\* bounds: calls made in one run, calls in flight at once, calls of
\* requestSpin in one run
MaxApiCalls == 3
MaxInFlight == 2
MaxSpinCalls == 1

\* the session tokens the backend hands out
Tokens == {"tok1", "tok2"}

\* headers of axios.create
DefaultHeaders ==
    ("Content-Type" :> "application/json") @@ ("X-Game-Type" :> "sweet-bonanza")
        @@ ("X-Game-Version" :> "1.0.0")

\* mutant: the interceptor sets the API key only
requestInterceptorKeyOnly(headers, key, token) ==
    IF key # "" THEN ("X-API-Key" :> key) @@ headers ELSE headers

\* the request interceptor
requestInterceptor(headers, key, token) ==
    LET withKey == IF key # "" THEN ("X-API-Key" :> key) @@ headers ELSE headers
    IN  IF token # "" THEN ("Authorization" :> ("Bearer " \o token)) @@ withKey
        ELSE withKey

\* the failures of a request: an error status of the backend, no response
Failures == {[response |-> TRUE, status |-> 401], [response |-> FALSE, status |-> 0]}

\* the message of the error handleAPIError throws
handleAPIError(error) ==
    IF error.response
        THEN CASE error.status = 400 -> "Invalid request: "
               [] error.status = 401 -> "Session expired - please login again"
               [] error.status = 403 -> "Insufficient funds or access denied"
               [] error.status = 429 -> "Too many requests - please wait"
               [] error.status = 500 -> "Server error - please try again"
               [] OTHER -> "API error: Unknown error"
        ELSE "Network error - please check your connection"

\* a JavaScript array, and a value that is no array
Array(items) == [isArray |-> TRUE, items |-> items]
NotAnArray == [isArray |-> FALSE, items |-> <<>>]

\* mutant: a reel longer than the rows passes
ValidReelOrLonger(reel) == reel.isArray /\ Len(reel.items) >= ROWS

\* Array.isArray(reel) && reel.length === GameConfig.GRID.ROWS
ValidReel(reel) == reel.isArray /\ Len(reel.items) = ROWS

requiredFields == <<"spinId", "grid", "winData", "balance", "timestamp">>

\* a || b for a field that may be absent: numbers (0 is falsy), booleans,
\* arrays and strings (an array is never falsy)
OrNumber(data, field, default) ==
    IF field \in DOMAIN data /\ data[field] # 0 THEN data[field] ELSE default
OrBoolean(data, field) == field \in DOMAIN data /\ data[field]
OrArray(data, field) == IF field \in DOMAIN data THEN data[field] ELSE <<>>
Undefined == "undefined"
Field(data, field) == IF field \in DOMAIN data THEN data[field] ELSE Undefined

\* GameAPI.parseSpinResponse: the error it throws or the result it returns
parseSpinResponse(data) ==
    LET missing == {i \in DOMAIN requiredFields : requiredFields[i] \notin DOMAIN data}
        freeSpins == IF "freeSpins" \in DOMAIN data THEN data.freeSpins ELSE <<>>
    IN  IF missing # {}
            THEN [threw |-> TRUE,
                  message |-> "Invalid response: missing "
                                  \o requiredFields[CHOOSE i \in missing :
                                                        \A j \in missing : i <= j]]
        ELSE IF ~data.grid.isArray \/ Len(data.grid.items) # COLS
            THEN [threw |-> TRUE, message |-> "Invalid grid structure"]
        ELSE IF \E i \in DOMAIN data.grid.items : ~ValidReel(data.grid.items[i])
            THEN [threw |-> TRUE, message |-> "Invalid reel structure"]
        ELSE [threw |-> FALSE,
              value |-> [spinId |-> data.spinId,
                         grid |-> data.grid,
                         tumbles |-> OrArray(data, "tumbles"),
                         winData |-> [clusters |-> OrArray(data.winData, "clusters"),
                                      totalWin |-> OrNumber(data.winData, "totalWin", 0),
                                      multipliers |-> OrArray(data.winData, "multipliers"),
                                      finalMultiplier |->
                                          OrNumber(data.winData, "finalMultiplier", 1)],
                         freeSpins |-> [triggered |-> OrBoolean(freeSpins, "triggered"),
                                        remaining |-> OrNumber(freeSpins, "remaining", 0),
                                        totalAwarded |->
                                            OrNumber(freeSpins, "totalAwarded", 0),
                                        retriggered |-> OrBoolean(freeSpins, "retriggered")],
                         balance |-> data.balance,
                         timestamp |-> data.timestamp,
                         roundId |-> Field(data, "roundId"),
                         signature |-> Field(data, "signature")]]

\* the responses of the backend to /game/spin: a complete one, the same
\* without its optional fields, each without one required field, and each
\* with a grid that is no array, has a reel too few or too many, or has a
\* reel that is no array or is an entry short or long
GoodReel == Array(<<0, 1, 2, 3, 4>>)
GoodGrid == Array(<<GoodReel, GoodReel, GoodReel, GoodReel, GoodReel, GoodReel>>)
BadGrids ==
    { NotAnArray,
      Array(<<GoodReel, GoodReel, GoodReel, GoodReel, GoodReel>>),
      Array(<<GoodReel, GoodReel, GoodReel, GoodReel, GoodReel, GoodReel, GoodReel>>),
      Array(<<GoodReel, GoodReel, GoodReel, GoodReel, GoodReel, NotAnArray>>),
      Array(<<GoodReel, GoodReel, Array(<<0, 1, 2, 3>>), GoodReel, GoodReel, GoodReel>>),
      Array(<<GoodReel, GoodReel, GoodReel, GoodReel, GoodReel, Array(<<0, 1, 2, 3, 4, 5>>)>>) }

FullResponse ==
    [spinId |-> "spin_1", grid |-> GoodGrid,
     tumbles |-> <<[tumbleIndex |-> 0]>>,
     winData |-> [clusters |-> <<[symbolId |-> 0, size |-> 8]>>, totalWin |-> 100,
                  multipliers |-> <<[col |-> 0, row |-> 0, value |-> 2]>>,
                  finalMultiplier |-> 2],
     freeSpins |-> [triggered |-> TRUE, remaining |-> 10, totalAwarded |-> 10,
                    retriggered |-> FALSE],
     balance |-> 199900, timestamp |-> 1, roundId |-> "round_1", signature |-> "sig"]

BareResponse ==
    [spinId |-> "spin_1", grid |-> GoodGrid, winData |-> <<>>, balance |-> 199900,
     timestamp |-> 1]

Without(data, field) == [f \in DOMAIN data \ {field} |-> data[f]]

SpinResponses ==
    {FullResponse, BareResponse}
        \cup {Without(d, requiredFields[i]) :
                 d \in {FullResponse, BareResponse}, i \in DOMAIN requiredFields}
        \cup {[d EXCEPT !.grid = g] : d \in {FullResponse, BareResponse}, g \in BadGrids}

\* the number of requests sent so far
Sent == Cardinality({i \in DOMAIN apiLog : apiLog[i].event = "sent"})

\* this.client.post / get: the request passes the interceptor and is on its way
Send(method) ==
    /\ Sent < MaxApiCalls
    /\ Cardinality(pending) < MaxInFlight
    /\ pending' = pending \cup {[id |-> Sent + 1, method |-> method]}
    /\ apiLog' = Append(apiLog,
                        [event |-> "sent", id |-> Sent + 1, method |-> method,
                         headers |-> requestInterceptor(DefaultHeaders, apiKey,
                                                        sessionToken)])
    /\ UNCHANGED <<apiKey, sessionToken, playerId, lastResult>>
    /\ UNCHANGED <<harnessVars, mockVars, gmGrid, settingVars, flowVars, gsmVars, sceneVars, uiVars>>

\* the await of the call is over: with a response or with a failure
Answered(call, ok, response) ==
    /\ pending' = pending \ {call}
    /\ apiLog' = Append(apiLog, [event |-> "answered", id |-> call.id,
                                  method |-> call.method, ok |-> ok,
                                  response |-> response])
    /\ apiKey' = apiKey
    /\ UNCHANGED <<harnessVars, mockVars, gmGrid, settingVars, flowVars, gsmVars, sceneVars, uiVars>>

Calls(method) == {call \in pending : call.method = method}

Threw(message) == [ok |-> FALSE, message |-> message]
Returned_(value) == [ok |-> TRUE, value |-> value]

\* GameAPI.initSession
ApiInitSession ==
    /\ Cardinality(Calls("initSession")) < MaxInFlight
    /\ Send("initSession")

ApiInitSessionReturns ==
    \E call \in Calls("initSession"), token \in Tokens :
        LET data == [sessionToken |-> token, playerId |-> "player1",
                     sessionId |-> "session1", balance |-> 200000, currency |-> "USD"]
        IN  /\ Answered(call, TRUE, data)
            /\ sessionToken' = data.sessionToken
            /\ playerId' = data.playerId
            /\ lastResult' = Returned_([success |-> TRUE, sessionId |-> data.sessionId,
                                        balance |-> data.balance,
                                        currency |-> data.currency])

ApiInitSessionFails ==
    \E call \in Calls("initSession"), error \in Failures :
        /\ Answered(call, FALSE, error)
        /\ lastResult' = Threw("Session initialization failed: " \o handleAPIError(error))
        /\ UNCHANGED <<sessionToken, playerId>>

\* GameAPI.requestSpin
ApiRequestSpin ==
    /\ Cardinality({i \in DOMAIN apiLog : apiLog[i].event = "sent"
                                           /\ apiLog[i].method = "requestSpin"})
           < MaxSpinCalls
    /\ Send("requestSpin")

ApiRequestSpinReturns ==
    \E call \in Calls("requestSpin"), data \in SpinResponses :
        /\ Answered(call, TRUE, data)
        /\ lastResult' = IF parseSpinResponse(data).threw
                             THEN Threw("Spin request failed: "
                                            \o parseSpinResponse(data).message)
                             ELSE Returned_(parseSpinResponse(data).value)
        /\ UNCHANGED <<sessionToken, playerId>>

ApiRequestSpinFails ==
    \E call \in Calls("requestSpin"), error \in Failures :
        /\ Answered(call, FALSE, error)
        /\ lastResult' = Threw("Spin request failed: " \o handleAPIError(error))
        /\ UNCHANGED <<sessionToken, playerId>>

\* GameAPI.getBalance
ApiGetBalance ==
    /\ Cardinality(Calls("getBalance")) < MaxInFlight
    /\ Send("getBalance")

ApiGetBalanceReturns ==
    \E call \in Calls("getBalance") :
        /\ Answered(call, TRUE, [balance |-> 200000])
        /\ lastResult' = Returned_(200000)
        /\ UNCHANGED <<sessionToken, playerId>>

ApiGetBalanceFails ==
    \E call \in Calls("getBalance"), error \in Failures :
        /\ Answered(call, FALSE, error)
        /\ lastResult' = Threw("Failed to get balance: " \o handleAPIError(error))
        /\ UNCHANGED <<sessionToken, playerId>>

\* GameAPI.endSession
ApiEndSession ==
    /\ Cardinality(Calls("endSession")) < MaxInFlight
    /\ Send("endSession")

ApiEndSessionReturns ==
    \E call \in Calls("endSession") :
        /\ Answered(call, TRUE, [summary |-> "ended"])
        /\ sessionToken' = ""
        /\ lastResult' = Returned_([summary |-> "ended"])
        /\ UNCHANGED playerId

ApiEndSessionFails ==
    \E call \in Calls("endSession"), error \in Failures :
        /\ Answered(call, FALSE, error)
        /\ lastResult' = Threw("Failed to end session: " \o handleAPIError(error))
        /\ UNCHANGED <<sessionToken, playerId>>

\* GameAPI.heartbeat: true, or false when the request fails
ApiHeartbeat ==
    /\ Cardinality(Calls("heartbeat")) < MaxInFlight
    /\ Send("heartbeat")

ApiHeartbeatReturns ==
    \E call \in Calls("heartbeat") :
        /\ Answered(call, TRUE, [alive |-> TRUE])
        /\ lastResult' = Returned_(TRUE)
        /\ UNCHANGED <<sessionToken, playerId>>

ApiHeartbeatFails ==
    \E call \in Calls("heartbeat"), error \in Failures :
        /\ Answered(call, FALSE, error)
        /\ lastResult' = Returned_(FALSE)
        /\ UNCHANGED <<sessionToken, playerId>>

\* the client is constructed with or without an API key
InitApi ==
    /\ Constructed
    /\ HarnessIdle
    /\ GameAPIConstructed
    /\ apiKey \in {"", "key1"}

NextApi ==
    \/ ApiInitSession
    \/ ApiInitSessionReturns
    \/ ApiInitSessionFails
    \/ ApiRequestSpin
    \/ ApiRequestSpinReturns
    \/ ApiRequestSpinFails
    \/ ApiGetBalance
    \/ ApiGetBalanceReturns
    \/ ApiGetBalanceFails
    \/ ApiEndSession
    \/ ApiEndSessionReturns
    \/ ApiEndSessionFails
    \/ ApiHeartbeat
    \/ ApiHeartbeatReturns
    \/ ApiHeartbeatFails

SpecApi == InitApi /\ [][NextApi]_vars

(***************************************************************************)
(* Connected components, by closure under adjacency                        *)
(***************************************************************************)
Abs(n) == IF n < 0 THEN -n ELSE n
Adjacent(p, q) == Abs(p.col - q.col) + Abs(p.row - q.row) = 1
Diagonal(p, q) == Abs(p.col - q.col) = 1 /\ Abs(p.row - q.row) = 1
At(grid, p) == grid[p.col][p.row]

RECURSIVE Closure(_, _, _)
Closure(grid, S, frontier) ==
    LET new == {q \in Cells \ S :
                   \E p \in frontier : Adjacent(p, q) /\ At(grid, q) = At(grid, p)}
    IN  IF new = {} THEN S ELSE Closure(grid, S \cup new, new)

Component(grid, p) == Closure(grid, {p}, {p})

ClusterCells(cl) == {cl.positions[i] : i \in DOMAIN cl.positions}

\* C1: MockGameAPI.detectClusters returns exactly the maximal 4-connected
\* components of equal pay symbols with at least 8 cells: each returned
\* cluster is the whole component of its first cell (connected inside itself,
\* nothing adjacent of the same symbol left out, nothing joined by a diagonal
\* alone), and every pay-symbol cell whose component has 8 or more cells lies
\* in exactly one returned cluster.
C1_ClustersAreTheComponents ==
    "mock" \in called =>
        /\ \A i \in DOMAIN outClusters :
              LET cl == outClusters[i]
              IN  /\ cl.symbolId \in PaySymbols
                  /\ Len(cl.positions) >= 1
                  /\ ClusterCells(cl) = Component(inGrid, cl.positions[1])
                  /\ \A p \in ClusterCells(cl) : At(inGrid, p) = cl.symbolId
        /\ \A p \in Cells :
              (At(inGrid, p) \in PaySymbols /\ Cardinality(Component(inGrid, p)) >= 8)
                  => Cardinality({i \in DOMAIN outClusters :
                                     p \in ClusterCells(outClusters[i])}) = 1

\* a grid with two returned clusters, a component too small to be returned,
\* and two cells of one symbol touching only at a corner, one in a cluster and
\* the other outside it
C1_Witness ==
    /\ "mock" \in called
    /\ Len(outClusters) >= 2
    /\ \E p \in Cells : At(inGrid, p) \in PaySymbols
                          /\ Cardinality(Component(inGrid, p)) < 8
    /\ \E i \in DOMAIN outClusters :
          \E p \in ClusterCells(outClusters[i]), q \in Cells :
              /\ Diagonal(p, q)
              /\ At(inGrid, q) = At(inGrid, p)
              /\ q \notin ClusterCells(outClusters[i])

\* C2: every cluster MockGameAPI.detectClusters returns has at least 8
\* positions, its size field is the number of its positions, no cell is listed
\* twice in a cluster and no cell belongs to two clusters.
C2_ClusterSizesAndDisjoint ==
    "mock" \in called =>
        /\ \A i \in DOMAIN outClusters :
              /\ Len(outClusters[i].positions) >= 8
              /\ outClusters[i].size = Len(outClusters[i].positions)
              /\ Cardinality(ClusterCells(outClusters[i])) = Len(outClusters[i].positions)
        /\ \A i, j \in DOMAIN outClusters :
              i # j => ClusterCells(outClusters[i]) \cap ClusterCells(outClusters[j]) = {}

\* two clusters were returned from a grid that also holds a component of pay
\* symbols that is too small
C2_Witness ==
    /\ "mock" \in called
    /\ Len(outClusters) >= 2
    /\ \E p \in Cells : At(inGrid, p) \in PaySymbols
                          /\ Cardinality(Component(inGrid, p)) < 8

\* C3: no cluster returned by MockGameAPI.detectClusters or by
\* GridManager.detectClusters has symbolId 9 or 10 or contains a cell holding
\* a scatter or a multiplier, however many of them are adjacent.
NoSpecialIn(clusters, grid) ==
    \A i \in DOMAIN clusters :
        /\ clusters[i].symbolId \notin {SCATTER, MULTIPLIER}
        /\ \A p \in ClusterCells(clusters[i]) : At(grid, p) \notin {SCATTER, MULTIPLIER}

C3_NoSpecialSymbolInClusters ==
    /\ "mock" \in called => NoSpecialIn(outClusters, inGrid)
    /\ "grid" \in called => NoSpecialIn(gmClusters, inGrid)

\* both detectors ran on a grid with 8 or more connected scatters and with
\* adjacent multipliers, and returned a pay cluster
C3_Witness ==
    /\ {"mock", "grid"} \subseteq called
    /\ \E p \in Cells : At(inGrid, p) = SCATTER /\ Cardinality(Component(inGrid, p)) >= 8
    /\ \E p \in Cells : At(inGrid, p) = MULTIPLIER /\ Cardinality(Component(inGrid, p)) >= 2
    /\ Len(outClusters) >= 1
    /\ Len(gmClusters) >= 1

(***************************************************************************)
(* The resolver's outcome                                                  *)
(***************************************************************************)
Returned == outcome # NoOutcome

\* the grid the tumble loop is left with: the initial grid with every
\* recorded step's new symbols put in, step by step
RECURSIVE Replay(_, _)
Replay(grid, tumbles) ==
    IF Len(tumbles) = 0 THEN grid
    ELSE Replay([col \in 0..5 |-> [row \in 0..4 |->
                    IF \E i \in DOMAIN Head(tumbles).newSymbols :
                           Head(tumbles).newSymbols[i].col = col
                           /\ Head(tumbles).newSymbols[i].row = row
                        THEN (CHOOSE ns \in {Head(tumbles).newSymbols[i] :
                                                i \in DOMAIN Head(tumbles).newSymbols} :
                                  ns.col = col /\ ns.row = row).symbolId
                        ELSE grid[col][row]]],
                Tail(tumbles))

HasWinningCluster(grid) ==
    \E p \in Cells : At(grid, p) \in PaySymbols /\ Cardinality(Component(grid, p)) >= 8

\* the size tiers of the pay table, times 2
TierTimes2(size) ==
    CASE size < 8 -> 0
      [] size \in 8..9 -> 1
      [] size \in 10..11 -> 2
      [] size \in 12..14 -> 4
      [] size \in 15..19 -> 10
      [] size \in 20..24 -> 20
      [] OTHER -> 40

RECURSIVE ClusterPayout2(_)
ClusterPayout2(clusters) ==
    IF Len(clusters) = 0 THEN 0
    ELSE TierTimes2(Len(Head(clusters).positions)) + ClusterPayout2(Tail(clusters))

RECURSIVE SumOfStepWins(_)
SumOfStepWins(tumbles) ==
    IF Len(tumbles) = 0 THEN 0 ELSE Head(tumbles).winAmount + SumOfStepWins(Tail(tumbles))

RECURSIVE SumOfValues(_)
SumOfValues(ms) == IF Len(ms) = 0 THEN 0 ELSE Head(ms).value + SumOfValues(Tail(ms))

RECURSIVE CollectedIn(_)
CollectedIn(tumbles) ==
    IF Len(tumbles) = 0 THEN 0
    ELSE SumOfValues(Head(tumbles).multipliers) + CollectedIn(Tail(tumbles))

\* C4: the returned tumble sequence ends only at a detection that finds no
\* cluster: the grid left after the last recorded refill holds no cluster of
\* 8 or more (hitting the iteration cap with clusters left is an error, and
\* the resolver returns no outcome then).
C4_CascadeNeverTruncated ==
    Returned => ~HasWinningCluster(Replay(outcome.grid, outcome.tumbles))

\* C5: processTumbles terminates, within the cap of 5 iterations, whatever the
\* refills draw; the recorded steps carry tumbleIndex 0, 1, 2, ... in order,
\* and each holds at least one cluster and removes at least 8 cells.
C5_TerminatesWithOrderedSteps ==
    Returned =>
        /\ Len(outcome.tumbles) <= 5
        /\ \A i \in DOMAIN outcome.tumbles :
              /\ outcome.tumbles[i].tumbleIndex = i - 1
              /\ Len(outcome.tumbles[i].clusters) >= 1
              /\ Cardinality({outcome.tumbles[i].removePositions[k] :
                                 k \in DOMAIN outcome.tumbles[i].removePositions}) >= 8

\* the refills formed a new cluster every time: the loop stopped at the cap
\* with a cluster still on the grid
C5_Witness ==
    /\ Returned
    /\ Len(outcome.tumbles) = 5
    /\ HasWinningCluster(Replay(outcome.grid, outcome.tumbles))

\* C6: winData.totalWin is the sum of the steps' winAmount values, times the
\* accumulated multiplier in a free spin and exactly the sum in a base-game
\* spin.  (totalWin is in half-cents and winAmount in halves of a currency
\* unit, hence the factor 100.)
C6_TotalWinIsSumOfStepWins ==
    Returned =>
        outcome.winData.totalWin =
            100 * SumOfStepWins(outcome.tumbles)
                * (IF lastParams.isFreeSpins THEN outcome.winData.finalMultiplier ELSE 1)

\* C7: in a base-game spin the win of a step whose grid holds multipliers is
\* the step's cluster payout times the sum of that step's multiplier values.
C7_BaseGameStepWinTimesOwnMultipliers ==
    (Returned /\ ~lastParams.isFreeSpins) =>
        \A i \in DOMAIN outcome.tumbles :
            Len(outcome.tumbles[i].multipliers) > 0 =>
                outcome.tumbles[i].winAmount =
                    ClusterPayout2(outcome.tumbles[i].clusters)
                        * SumOfValues(outcome.tumbles[i].multipliers)

\* the accumulated multiplier as of step n: the value passed in plus the
\* multiplier sums of steps 1..n
RunningMultiplier(acc, tumbles, n) == acc + CollectedIn(SubSeq(tumbles, 1, n))

RECURSIVE RunningWin2(_, _, _)
RunningWin2(acc, tumbles, n) ==
    IF n = 0 THEN 0
    ELSE RunningWin2(acc, tumbles, n - 1)
         + ClusterPayout2(tumbles[n].clusters) * RunningMultiplier(acc, tumbles, n)

\* C8: in a free spin every step's win is multiplied by the accumulated
\* multiplier as of that step, so the spin pays the bet times the sum over the
\* steps of payout times running multiplier.
C8_FreeSpinStepWinTimesRunningMultiplier ==
    (Returned /\ lastParams.isFreeSpins) =>
        outcome.winData.totalWin =
            lastParams.betAmount
                * RunningWin2(lastParams.accumulatedMultiplier, outcome.tumbles,
                              Len(outcome.tumbles))

\* C9: a free-spin call returns as finalMultiplier the accumulatedMultiplier
\* it was handed plus the multiplier values it collected, so the value handed
\* from call to call never decreases.
C9_FinalMultiplierCarriesForward ==
    (Returned /\ lastParams.isFreeSpins) =>
        /\ outcome.winData.finalMultiplier =
               lastParams.accumulatedMultiplier + CollectedIn(outcome.tumbles)
        /\ outcome.winData.finalMultiplier >= lastParams.accumulatedMultiplier

\* C10: whenever the game is IDLE with no free spins remaining, the accumulated
\* multiplier is back at its base value 1 (a session that ran out reset it).
C10_MultiplierResetWhenSessionEnds ==
    (currentState = "IDLE" /\ freeSpinsRemaining = 0) => freeSpinsAccumulatedMultiplier = 1

(***************************************************************************)
(* The free-spin session, as the scene sees it in its exchanges with the   *)
(* API                                                                     *)
(***************************************************************************)
\* exchanges i and i + 1 are two consecutive free spins of one session: the
\* session was not at its last spin when the first of them was requested
ConsecutiveFreeSpins(i) ==
    /\ i \in DOMAIN exchanges /\ i + 1 \in DOMAIN exchanges
    /\ exchanges[i].spinRequest.isFreeSpins
    /\ exchanges[i].spinRequest.freeSpinsRemaining > 1
    /\ exchanges[i + 1].spinRequest.isFreeSpins

\* C11: within a free-spin session the accumulated multiplier sent with a free
\* spin is the one sent with the previous free spin plus the multiplier values
\* collected in that previous spin, whatever the results are.
C11_MultiplierPersistsWithinSession ==
    \A i \in DOMAIN exchanges :
        ConsecutiveFreeSpins(i) =>
            exchanges[i + 1].spinRequest.accumulatedMultiplier =
                exchanges[i].spinRequest.accumulatedMultiplier
                    + SumOfValues(exchanges[i].multipliers)

(***************************************************************************)
(* The free spins block of an outcome                                      *)
(***************************************************************************)
ScattersIn(grid) == Cardinality({p \in Cells : At(grid, p) = 9})

\* C12: a base-game outcome has freeSpins.triggered exactly when its initial
\* grid holds 4 or more scatters, clusters or not and whatever the refills
\* drew; the award is 10 (remaining and totalAwarded) when triggered, else 0.
C12_BaseGameTriggerFromInitialGrid ==
    (Returned /\ ~lastParams.isFreeSpins) =>
        /\ outcome.freeSpins.triggered = (ScattersIn(outcome.grid) >= 4)
        /\ outcome.freeSpins.remaining = (IF ScattersIn(outcome.grid) >= 4 THEN 10 ELSE 0)
        /\ outcome.freeSpins.totalAwarded = outcome.freeSpins.remaining

\* a base-game outcome without trigger whose cascade refilled 4 or more
\* scatters into a grid that started with fewer
C12_Witness ==
    /\ Returned /\ ~lastParams.isFreeSpins
    /\ Len(outcome.tumbles) > 0
    /\ ScattersIn(outcome.grid) < 4
    /\ ScattersIn(Replay(outcome.grid, outcome.tumbles)) >= 4
    /\ ~outcome.freeSpins.triggered

\* a base-game outcome triggered by exactly 4 scatters on a grid without cluster
C12_ExactlyFourNoCluster ==
    /\ Returned /\ ~lastParams.isFreeSpins
    /\ Len(outcome.tumbles) = 0
    /\ ScattersIn(outcome.grid) = 4
    /\ outcome.freeSpins.triggered

\* money in half-cents: the stake of a request
StakeOf(req) ==
    IF req.isFreeSpins THEN 0
    ELSE IF req.anteBet THEN (req.betAmount * 5) \div 2
    ELSE req.betAmount * 2

\* the balance the API held before it answered exchange n
BalanceBefore(n) == IF n = 1 THEN 200000 ELSE exchanges[n - 1].balance

\* no exchange after i, up to i + j - 1, has a trigger
NoTriggerBetween(i, j) == \A k \in 1..(j - 1) : ~exchanges[i + k].freeSpins.triggered

\* C13: a trigger awards exactly 10 free spins: absent further triggers the
\* next 10 requests are free spins, sent with 10, 9, ..., 1 remaining and
\* changing the balance by their wins only, the 11th is a paid base-game spin,
\* and freeSpinsRemaining never leaves 0..10.
C13_TriggerAwardsExactlyTenFreeSpins ==
    /\ freeSpinsRemaining \in 0..10
    /\ \A i \in DOMAIN exchanges : \A j \in 1..11 :
           (/\ exchanges[i].freeSpins.triggered
            /\ i + j \in DOMAIN exchanges
            /\ NoTriggerBetween(i, j)) =>
               LET e == exchanges[i + j]
               IN  IF j <= 10
                       THEN /\ e.spinRequest.isFreeSpins
                            /\ e.spinRequest.freeSpinsRemaining = 11 - j
                            /\ e.balance = BalanceBefore(i + j) + e.totalWin
                       ELSE /\ ~e.spinRequest.isFreeSpins
                            /\ e.spinRequest.freeSpinsRemaining = 0
                            /\ e.balance = BalanceBefore(i + j) - StakeOf(e.spinRequest)
                                               + e.totalWin

\* a trigger, ten free spins with wins and no trigger, and the paid spin after them
C13_Witness ==
    \E i \in DOMAIN exchanges :
        /\ exchanges[i].freeSpins.triggered
        /\ i + 11 \in DOMAIN exchanges
        /\ NoTriggerBetween(i, 12)
        /\ \A j \in 1..10 : exchanges[i + j].totalWin > 0
        /\ StakeOf(exchanges[i + 11].spinRequest) > 0
        /\ currentState = "IDLE"

(***************************************************************************)
(* The events of one spin                                                  *)
(***************************************************************************)
\* the index in emitted at which the last requestSpin entered SPINNING
LastSpinStart ==
    CHOOSE n \in DOMAIN emitted :
        /\ emitted[n].name = "stateChanged" /\ emitted[n].to = "SPINNING"
        /\ \A m \in DOMAIN emitted :
               (emitted[m].name = "stateChanged" /\ emitted[m].to = "SPINNING") => m <= n

\* the last requestSpin has returned with a result
SpinCompleted == pc = "idle" /\ currentSpinData # NoOutcome

\* C14: when a spin's result has freeSpins.triggered, the state manager enters
\* FREE_SPINS and emits freeSpinsTrigger with the awarded count before the
\* spin completes, a result without tumbles included.
C14_TriggerStartsSessionVisibly ==
    (SpinCompleted /\ currentSpinData.freeSpins.triggered) =>
        /\ \E n \in LastSpinStart..Len(emitted) :
               emitted[n].name = "stateChanged" /\ emitted[n].to = "FREE_SPINS"
        /\ \E n \in LastSpinStart..Len(emitted) :
               /\ emitted[n].name = "freeSpinsTrigger"
               /\ emitted[n].spins = currentSpinData.freeSpins.totalAwarded

\* C15: during free spins a grid with 3 or more scatters re-triggers the
\* feature: the outcome is triggered, marked retriggered, and awards 5 spins.
C15_RetriggerDuringFreeSpins ==
    (Returned /\ lastParams.isFreeSpins /\ ScattersIn(outcome.grid) >= 3) =>
        /\ outcome.freeSpins.triggered
        /\ outcome.freeSpins.retriggered
        /\ outcome.freeSpins.totalAwarded = 5

(***************************************************************************)
(* The API's bookkeeping                                                   *)
(***************************************************************************)
\* the step in which MockGameAPI.requestSpin answers the pending request
ApiAnswers == apiCall.status = "pending" /\ apiCall'.status = "resolved"

\* C16: every MockGameAPI.requestSpin leaves balance = balance before - stake
\* + totalWin, with stake the bet, 1.25 times the bet under the ante bet, and
\* 0 for a free spin; the returned balance is the stored one, and spinCounter
\* grows by exactly 1.
C16_BalanceAfterSpin ==
    [][ApiAnswers =>
           /\ mockBalance' = mockBalance - StakeOf(apiCall.spinRequest)
                                 + apiCall'.spinData.winData.totalWin
           /\ apiCall'.balance = mockBalance'
           /\ spinCounter' = spinCounter + 1]_vars

\* the API has answered a paid spin under the ante bet that won
C16_Witness ==
    /\ apiCall.status = "resolved"
    /\ apiCall.spinRequest.anteBet /\ ~apiCall.spinRequest.isFreeSpins
    /\ apiCall.spinData.winData.totalWin > 0
    /\ apiCall.balance = mockBalance

\* a step in which GameScene.handleSpin ran on the spin button: a request went
\* to the API or an error was shown, the autoplay switch left alone
HandleSpinStep ==
    /\ autoplayEnabled' = autoplayEnabled
    /\ \/ Len(shownErrors') > Len(shownErrors)
       \/ apiCall.status # "pending" /\ apiCall'.status = "pending"

\* the full stake of the current settings, in half-cents
FullStake == IF anteBetEnabled THEN (currentBet * 5) \div 2 ELSE currentBet * 2

\* C17: GameStateManager.requestSpin called in IDLE with no free spin left
\* and a balance below the full stake fails with 'Insufficient balance'
\* without contacting the API and leaves the state IDLE and the balance,
\* totalSpins, freeSpinsRemaining and the grid unchanged; with a free spin
\* left the spin is accepted whatever the balance
C17_InsufficientBalanceRejected ==
    [][(sessionStarted /\ pc = "idle" /\ currentState = "IDLE" /\ HandleSpinStep) =>
         /\ (freeSpinsRemaining = 0 /\ balance < FullStake) =>
               /\ shownErrors' = Append(shownErrors, "Insufficient balance")
               /\ apiCall' = apiCall
               /\ currentState' = "IDLE"
               /\ UNCHANGED <<balance, totalSpins, freeSpinsRemaining, gmGrid,
                              mockBalance, spinCounter>>
         /\ freeSpinsRemaining > 0 =>
               /\ shownErrors' = shownErrors
               /\ apiCall'.status = "pending"
               /\ apiCall'.spinRequest.isFreeSpins]_vars

\* a spin was refused for its stake: the error is shown, the game is idle with
\* a balance below the stake and every answered request was paid for
C17_Witness ==
    /\ shownErrors = <<"Insufficient balance">>
    /\ currentState = "IDLE"
    /\ freeSpinsRemaining = 0
    /\ balance < FullStake
    /\ totalSpins = Len(exchanges)
    /\ apiCall.status # "pending"

\* a free spin is on its way to the API while the balance is below the stake
C17_FreeSpinOnShortBalance ==
    /\ apiCall.status = "pending"
    /\ apiCall.spinRequest.isFreeSpins
    /\ balance < FullStake

\* a step in which autoplay is switched on from the idle game
AutoplaySwitchedOnInIdle ==
    /\ sessionStarted /\ pc = "idle" /\ currentState = "IDLE"
    /\ ~autoplayEnabled /\ autoplayEnabled'

\* C18: when autoplay is switched on while the state is IDLE, the first
\* automatic spin request is accepted (it goes to the API and no error is
\* shown), so that the spins can follow and the game comes back to IDLE
C18_AutoplayStartsFromIdle ==
    [][AutoplaySwitchedOnInIdle =>
         /\ apiCall'.status = "pending"
         /\ shownErrors' = shownErrors
         /\ autoplayRemaining' = AUTOPLAY_SPINS]_vars

\* the grid step k of the outcome works on: the initial grid with the new
\* symbols of the steps before k put in
GridOfStep(k) == Replay(outcome.grid, SubSeq(outcome.tumbles, 1, k - 1))

\* the cells of a list of positions or of new symbols
CellsOf(list) == {Pos(list[i].col, list[i].row) : i \in DOMAIN list}

\* the cells of all clusters of a step
ClusterCellsOf(step) == UNION {ClusterCells(step.clusters[i]) : i \in DOMAIN step.clusters}

\* C19: in every tumble step removePositions lists exactly the cells of the
\* step's clusters, each once; newSymbols has one entry per removed position,
\* same positions in the same order, with a symbol id from 0 to 10; and a cell
\* that is not removed keeps its symbol, so that the clusters of every step
\* are components of the initial grid changed at the removed cells only
C19_OnlyClusterCellsAreReplaced ==
    Returned =>
        \A k \in DOMAIN outcome.tumbles :
            LET step == outcome.tumbles[k] IN
            /\ CellsOf(step.removePositions) = ClusterCellsOf(step)
            /\ Cardinality(CellsOf(step.removePositions)) = Len(step.removePositions)
            /\ Len(step.newSymbols) = Len(step.removePositions)
            /\ \A i \in DOMAIN step.newSymbols :
                   /\ step.newSymbols[i].col = step.removePositions[i].col
                   /\ step.newSymbols[i].row = step.removePositions[i].row
                   /\ step.newSymbols[i].symbolId \in 0..10
            /\ \A i \in DOMAIN step.clusters :
                   /\ \A p \in ClusterCells(step.clusters[i]) :
                          At(GridOfStep(k), p) = step.clusters[i].symbolId
                   /\ ClusterCells(step.clusters[i])
                          = Component(GridOfStep(k), step.clusters[i].positions[1])

\* a cascade of at least two steps whose first step leaves cells in place
\* and refills a removed cell with a multiplier bomb
C19_Witness ==
    /\ Returned
    /\ Len(outcome.tumbles) >= 2
    /\ Len(outcome.tumbles[1].removePositions) >= 8
    /\ Cells \ CellsOf(outcome.tumbles[1].removePositions) # {}
    /\ outcome.tumbles[1].newSymbols[1].symbolId = 10
    /\ outcome.tumbles[1].newSymbols[2].symbolId = 0

\* the multiplier cells of a grid
MultiplierCells(grid) == {p \in Cells : At(grid, p) = 10}

\* C20: the multipliers list of every step has exactly one entry per
\* multiplier cell of the grid the step's clusters were detected on, with a
\* value of the multiplier table; the step's multiplier is the sum of the
\* values, or 1 without any; multiplier cells are never removed, so a cell
\* collected in one step is collected in every later step
C20_MultipliersCollectedInEveryStep ==
    Returned =>
        \A k \in DOMAIN outcome.tumbles :
            LET step == outcome.tumbles[k] IN
            /\ CellsOf(step.multipliers) = MultiplierCells(GridOfStep(k))
            /\ Len(step.multipliers) = Cardinality(MultiplierCells(GridOfStep(k)))
            /\ \A i \in DOMAIN step.multipliers :
                   step.multipliers[i].value
                       \in {2, 3, 4, 5, 6, 7, 8, 9, 10, 12, 15, 20, 25, 50, 100}
            /\ step.multiplier = IF Len(step.multipliers) = 0 THEN 1
                                  ELSE SumOfValues(step.multipliers)
            /\ CellsOf(step.multipliers) \cap CellsOf(step.removePositions) = {}
            /\ \A j \in DOMAIN outcome.tumbles :
                   j > k => CellsOf(step.multipliers) \subseteq
                                CellsOf(outcome.tumbles[j].multipliers)

\* a bomb of the initial grid is collected in the first step and again, with
\* another value, in the second, next to a bomb that the refill brought
C20_Witness ==
    /\ Returned
    /\ Len(outcome.tumbles) >= 2
    /\ Len(outcome.tumbles[1].multipliers) = 1
    /\ Len(outcome.tumbles[2].multipliers) = 2
    /\ \E i \in DOMAIN outcome.tumbles[2].multipliers :
           /\ outcome.tumbles[2].multipliers[i].col = outcome.tumbles[1].multipliers[1].col
           /\ outcome.tumbles[2].multipliers[i].row = outcome.tumbles[1].multipliers[1].row
           /\ outcome.tumbles[2].multipliers[i].value
                  # outcome.tumbles[1].multipliers[1].value

\* C21: MockGameAPI.calculateWin returns the sum over the clusters of the
\* size tier (0.5 for 8-9, 1 for 10-11, 2 for 12-14, 5 for 15-19, 10 for
\* 20-24, 20 for 25-30; here times 2); the value of a cluster does not
\* decrease with its size, is positive from size 8 on, and is the same for
\* every symbol id
C21_SizeTierPayout ==
    /\ "win" \in called => totalPayout = ClusterPayout2(outClusters)
    /\ \A size \in 8..30 :
           /\ TierTimes2(size) > 0
           /\ size < 30 => TierTimes2(size) <= TierTimes2(size + 1)
           /\ \A symbolId \in PaySymbols :
                  calculateWin(<<[symbolId |-> symbolId, positions |-> <<>>, size |-> size]>>,
                               DEFAULT_BET) = TierTimes2(size)

\* calculateWin has paid two clusters of different symbols and sizes of the
\* tier of 12 to 14
C21_Witness ==
    /\ "win" \in called
    /\ Len(outClusters) = 2
    /\ outClusters[1].symbolId # outClusters[2].symbolId
    /\ outClusters[1].size \in 12..14
    /\ totalPayout = 8

\* C22: when the initial grid of a spin holds no connected region of 8 or
\* more equal pay symbols, the outcome has no tumble, no cluster and a total
\* win of 0, at any bet, with or without multiplier symbols on the grid, in
\* the base game and in free spins; a paid spin then changes the balance by
\* exactly minus the stake
C22_NoClusterNoWin ==
    [][(ApiAnswers /\ ~HasWinningCluster(apiCall'.spinData.grid)) =>
         /\ apiCall'.spinData.tumbles = <<>>
         /\ apiCall'.spinData.winData.clusters = <<>>
         /\ apiCall'.spinData.winData.totalWin = 0
         /\ ~apiCall.spinRequest.isFreeSpins =>
                mockBalance' = mockBalance - StakeOf(apiCall.spinRequest)
         /\ apiCall.spinRequest.isFreeSpins => mockBalance' = mockBalance]_vars

\* a free spin sent with an accumulated multiplier above 1 was answered with
\* a grid that holds a bomb and no cluster: it won nothing
C22_Witness ==
    /\ apiCall.status = "resolved"
    /\ apiCall.spinRequest.isFreeSpins
    /\ apiCall.spinRequest.accumulatedMultiplier > 1
    /\ ~HasWinningCluster(apiCall.spinData.grid)
    /\ \E p \in Cells : At(apiCall.spinData.grid, p) = 10
    /\ apiCall.spinData.winData.totalWin = 0

\* the same on the resolver alone: every outcome of a grid without cluster
C22_ResolverNoClusterNoWin ==
    (Returned /\ ~HasWinningCluster(outcome.grid)) =>
        /\ outcome.tumbles = <<>>
        /\ outcome.winData.clusters = <<>>
        /\ outcome.winData.totalWin = 0
        /\ outcome.winData.multipliers = <<>>

\* a step from one returned outcome to the next with the same request and
\* the same draws
SameCallAgain ==
    /\ outcome # NoOutcome /\ outcome' # NoOutcome
    /\ lastParams' = lastParams
    /\ draws' = draws

RandValues == 0..99

\* the number of values of rand, out of 100, that give the symbol id
ShareOf(anteBet, id) == Cardinality({r \in RandValues : getRandomSymbol(anteBet, r) = id})

\* C24: with the ante bet a symbol draw is twice as likely to give the
\* scatter as without it, each pay symbol is as likely with the ante bet as
\* without, and every draw gives an id from 0 to 10, in the generated grid
\* as for every value of rand
C24_AnteDoublesScatterChance ==
    /\ \A p \in Cells : At(inGrid, p) \in 0..10
    /\ \A r \in RandValues : \A a \in BOOLEAN : getRandomSymbol(a, r) \in 0..10
    /\ \A id \in 0..8 : ShareOf(TRUE, id) = ShareOf(FALSE, id)
    /\ ShareOf(TRUE, 9) = 2 * ShareOf(FALSE, 9)

\* a step in which generateDemoOutcome has run
OutcomeGenerated == outcome' # NoOutcome /\ spinCounter' # spinCounter

UniformPayGrid(grid) ==
    /\ At(grid, Pos(0, 0)) \in 0..8
    /\ \A p \in Cells : At(grid, p) = At(grid, Pos(0, 0))

\* C29: for a grid whose 30 cells hold the same pay symbol, detectClusters
\* returns exactly one cluster, of that symbol and of size 30, that lists
\* every cell exactly once
C29_UniformGridIsOneCluster ==
    ("mock" \in called /\ UniformPayGrid(inGrid)) =>
        /\ Len(outClusters) = 1
        /\ outClusters[1].symbolId = At(inGrid, Pos(0, 0))
        /\ outClusters[1].size = 30
        /\ Len(outClusters[1].positions) = 30
        /\ ClusterCells(outClusters[1]) = Cells

\* detectClusters has run on the grid of 30 triangle candies (id 8)
C29_Witness ==
    /\ "mock" \in called
    /\ UniformPayGrid(inGrid)
    /\ At(inGrid, Pos(0, 0)) = 8
    /\ Len(outClusters) = 1

\* a step in which the backend's response to /game/spin has arrived
SpinAnswered ==
    /\ Len(apiLog') = Len(apiLog) + 1
    /\ apiLog'[Len(apiLog')].event = "answered"
    /\ apiLog'[Len(apiLog')].method = "requestSpin"
    /\ apiLog'[Len(apiLog')].ok

\* an array of exactly 6 reels, each an array of exactly 5 entries
WellFormedGrid(g) ==
    /\ g.isArray /\ Len(g.items) = 6
    /\ \A i \in DOMAIN g.items : g.items[i].isArray /\ Len(g.items[i].items) = 5

\* a response with the five required fields and a well-formed grid
Acceptable(data) ==
    /\ {"spinId", "grid", "winData", "balance", "timestamp"} \subseteq DOMAIN data
    /\ WellFormedGrid(data.grid)

RejectionMessages ==
    {"Spin request failed: Invalid response: missing spinId",
     "Spin request failed: Invalid response: missing grid",
     "Spin request failed: Invalid response: missing winData",
     "Spin request failed: Invalid response: missing balance",
     "Spin request failed: Invalid response: missing timestamp",
     "Spin request failed: Invalid grid structure",
     "Spin request failed: Invalid reel structure"}

\* C26: a response that lacks spinId, grid, winData, balance or timestamp,
\* or whose grid is not an array of exactly 6 reels of exactly 5 entries, is
\* rejected and requestSpin fails with 'Spin request failed: ...'; a response
\* that passes is returned with its grid and balance unchanged, its optional
\* fields as sent and the absent ones defaulted (tumbles [], totalWin 0,
\* finalMultiplier 1, free spins not triggered with 0 remaining)
C26_MalformedSpinResponseRejected ==
    [][SpinAnswered =>
         LET data == apiLog'[Len(apiLog')].response
             result == lastResult'
         IN  /\ ~Acceptable(data) =>
                    /\ ~result.ok
                    /\ result.message \in RejectionMessages
             /\ Acceptable(data) =>
                    /\ result.ok
                    /\ result.value.grid = data.grid
                    /\ result.value.balance = data.balance
                    /\ result.value.spinId = data.spinId
                    /\ result.value.tumbles =
                           (IF "tumbles" \in DOMAIN data THEN data.tumbles ELSE <<>>)
                    /\ result.value.winData.totalWin =
                           (IF "totalWin" \in DOMAIN data.winData
                                THEN data.winData.totalWin ELSE 0)
                    /\ result.value.winData.finalMultiplier =
                           (IF "finalMultiplier" \in DOMAIN data.winData
                                THEN data.winData.finalMultiplier ELSE 1)
                    /\ "freeSpins" \in DOMAIN data =>
                           /\ result.value.freeSpins.triggered = data.freeSpins.triggered
                           /\ result.value.freeSpins.remaining = data.freeSpins.remaining
                    /\ "freeSpins" \notin DOMAIN data =>
                           /\ ~result.value.freeSpins.triggered
                           /\ result.value.freeSpins.remaining = 0]_vars

\* the last answer was a spin response with six reels of which one has six
\* entries, and requestSpin failed on it
C26_Witness ==
    /\ Len(apiLog) > 0
    /\ apiLog[Len(apiLog)].event = "answered"
    /\ apiLog[Len(apiLog)].method = "requestSpin"
    /\ apiLog[Len(apiLog)].ok
    /\ {"spinId", "grid", "winData", "balance", "timestamp"}
           \subseteq DOMAIN apiLog[Len(apiLog)].response
    /\ apiLog[Len(apiLog)].response.grid.isArray
    /\ Len(apiLog[Len(apiLog)].response.grid.items) = 6
    /\ \E i \in 1..6 : Len(apiLog[Len(apiLog)].response.grid.items[i].items) = 6
    /\ lastResult = [ok |-> FALSE,
                      message |-> "Spin request failed: Invalid reel structure"]

\* the last answer was a spin response with the required fields only, and
\* requestSpin returned it with the defaults
C26_DefaultsWitness ==
    /\ Len(apiLog) > 0
    /\ apiLog[Len(apiLog)].event = "answered"
    /\ apiLog[Len(apiLog)].method = "requestSpin"
    /\ apiLog[Len(apiLog)].ok
    /\ Acceptable(apiLog[Len(apiLog)].response)
    /\ "tumbles" \notin DOMAIN apiLog[Len(apiLog)].response
    /\ lastResult.ok
    /\ lastResult.value.tumbles = <<>>
    /\ lastResult.value.winData.finalMultiplier = 1

\* the session token in force after the first n entries of the log: the one
\* returned by the latest initSession that succeeded, none before the first
\* and none after an endSession that succeeded
RECURSIVE TokenInForce(_)
TokenInForce(n) ==
    IF n = 0 THEN ""
    ELSE IF apiLog[n].event = "answered" /\ apiLog[n].ok
                /\ apiLog[n].method = "initSession"
        THEN apiLog[n].response.sessionToken
    ELSE IF apiLog[n].event = "answered" /\ apiLog[n].ok
                /\ apiLog[n].method = "endSession"
        THEN ""
    ELSE TokenInForce(n - 1)

\* C27: every request sent while a session is open carries 'Authorization:
\* Bearer <token of the latest successful initSession>', no request sent
\* before the first successful initSession or after a successful endSession
\* carries an Authorization header, a failed initSession or endSession leaves
\* the stored token unchanged, and X-API-Key is attached exactly when an API
\* key is configured
C27_AuthorizationFollowsSession ==
    /\ sessionToken = TokenInForce(Len(apiLog))
    /\ \A i \in DOMAIN apiLog :
           apiLog[i].event = "sent" =>
               /\ IF TokenInForce(i - 1) = ""
                      THEN "Authorization" \notin DOMAIN apiLog[i].headers
                      ELSE /\ "Authorization" \in DOMAIN apiLog[i].headers
                           /\ apiLog[i].headers["Authorization"]
                                  = "Bearer " \o TokenInForce(i - 1)
               /\ ("X-API-Key" \in DOMAIN apiLog[i].headers) <=> (apiKey # "")
               /\ apiKey # "" => apiLog[i].headers["X-API-Key"] = apiKey

\* with an API key configured: initSession returned tok2, endSession was sent
\* with that token and succeeded, and the request sent after it carries no
\* Authorization header
C27_Witness ==
    /\ apiKey = "key1"
    /\ Len(apiLog) = 5
    /\ apiLog[2].event = "answered" /\ apiLog[2].method = "initSession" /\ apiLog[2].ok
    /\ apiLog[2].response.sessionToken = "tok2"
    /\ apiLog[3].event = "sent" /\ apiLog[3].method = "endSession"
    /\ apiLog[3].headers["Authorization"] = "Bearer tok2"
    /\ apiLog[4].event = "answered" /\ apiLog[4].ok
    /\ apiLog[5].event = "sent"
    /\ "Authorization" \notin DOMAIN apiLog[5].headers
    /\ "X-API-Key" \in DOMAIN apiLog[5].headers

\* initSession returned tok1, a second initSession failed, and the request
\* sent after the failure still carries tok1
C27_FailureWitness ==
    /\ Len(apiLog) = 5
    /\ apiLog[2].event = "answered" /\ apiLog[2].method = "initSession" /\ apiLog[2].ok
    /\ apiLog[4].event = "answered" /\ apiLog[4].method = "initSession" /\ ~apiLog[4].ok
    /\ apiLog[5].event = "sent"
    /\ apiLog[5].headers["Authorization"] = "Bearer tok1"
    /\ sessionToken = "tok1"

\* a stop condition of the claim holds for a spin result
StopConditionHolds(conditions, spinData) ==
    \/ conditions.onFreeSpins /\ spinData.freeSpins.triggered
    \/ conditions.onAnyWin /\ spinData.winData.totalWin > 0
    \/ conditions.onSingleWinExceeds > 0
           /\ spinData.winData.totalWin >= conditions.onSingleWinExceeds

\* stop conditions autoplay can be started with; the thresholds are in
\* half-cents (half a bet, 25 bets)
StopConditionSets ==
    {[onAnyWin |-> a, onFreeSpins |-> f, onSingleWinExceeds |-> t] :
         a \in BOOLEAN, f \in BOOLEAN, t \in {0, DEFAULT_BET, 50 * DEFAULT_BET}}

\* the end of a spin under autoplay, as the claim describes it: st is the
\* state before, r the state after
AutoplayHonoured(st, r, spinData) ==
    IF StopConditionHolds(st.autoplayStopConditions, spinData)
        THEN /\ ~r.autoplayEnabled
             /\ r.autoplayRemaining = 0
             /\ r.currentState = "IDLE"
             /\ Len(r.emitted) = Len(st.emitted) + 2
             /\ r.emitted[Len(r.emitted) - 1] = [name |-> "autoplayStop"]
             /\ r.emitted[Len(r.emitted)] = StateChanged(st.currentState, "IDLE")
             /\ r.scheduled = st.scheduled
             /\ r.spinEnabled
    ELSE /\ r.autoplayRemaining = st.autoplayRemaining - 1
         /\ r.autoplayStopConditions = st.autoplayStopConditions
         /\ st.autoplayRemaining > 1 =>
                /\ r.autoplayEnabled
                /\ r.scheduled = st.scheduled + 1

\* C28: at the end of a spin played with autoplay on, if the result meets a
\* stop condition (onFreeSpins and free spins triggered, onAnyWin and a win,
\* onSingleWinExceeds and a win at or above the threshold) then autoplay is
\* off, autoplayRemaining is 0 and autoplayStop is emitted before the state
\* changes to IDLE, handleSpin schedules no further spin and enables the spin
\* button; if it meets none, autoplayRemaining goes down by exactly 1, and
\* while spins remain autoplay stays on and the next spin is scheduled.  The
\* same holds of the end of the spin for every other set of stop conditions
\* and number of spins autoplay could have been started with.
C28_AutoplayHonoursStopConditions ==
    [][(pc # "idle" /\ pc' = "idle") =>
          /\ autoplayEnabled =>
                 AutoplayHonoured(Fields,
                                  [autoplayEnabled |-> autoplayEnabled',
                                   autoplayRemaining |-> autoplayRemaining',
                                   autoplayStopConditions |-> autoplayStopConditions',
                                   currentState |-> currentState',
                                   emitted |-> emitted',
                                   scheduled |-> scheduled',
                                   spinEnabled |-> spinEnabled'],
                                  currentSpinData)
          /\ \A conditions \in StopConditionSets, spins \in {1, 5} :
                 AutoplayHonoured(
                     [Fields EXCEPT !.autoplayEnabled = TRUE,
                                    !.autoplayRemaining = spins,
                                    !.autoplayStopConditions = conditions],
                     afterRequestSpin(completeSpin(
                         [Fields EXCEPT !.autoplayEnabled = TRUE,
                                        !.autoplayRemaining = spins,
                                        !.autoplayStopConditions = conditions],
                         currentSpinData)),
                     currentSpinData)]_vars

\* autoplay was started during the first spin, the third spin triggered free
\* spins, and autoplay is off, with no spin scheduled and the button enabled
C28_Witness ==
    /\ pc = "idle" /\ currentState = "IDLE"
    /\ totalSpins = 3
    /\ exchanges[3].freeSpins.triggered
    /\ ~exchanges[1].freeSpins.triggered /\ ~exchanges[2].freeSpins.triggered
    /\ \E i \in DOMAIN emitted : emitted[i].name = "autoplayStart"
    /\ emitted[Len(emitted) - 1] = [name |-> "autoplayStop"]
    /\ ~autoplayEnabled /\ autoplayRemaining = 0
    /\ scheduled = 0 /\ spinEnabled

\* two spins have ended under autoplay without a stop condition
C28_CountdownWitness ==
    /\ pc = "idle"
    /\ autoplayEnabled
    /\ autoplayRemaining = AUTOPLAY_SPINS - 2
    /\ scheduled = 1

\* the spins requestSpin accepted: the changes of state to SPINNING
AcceptedSpins ==
    Cardinality({i \in DOMAIN emitted :
                    emitted[i].name = "stateChanged" /\ emitted[i].to = "SPINNING"})

\* C30: handleSpin called while a spin is in flight and the state is not IDLE
\* (from the spin button or from autoplay's timer) shows 'Cannot spin - game
\* not in idle state' and changes neither the API call in flight, the API's
\* balance, counter and history, nor the state, the balance,
\* freeSpinsRemaining, totalSpins, the spin data or the position of the
\* running spin; the API has answered one call per accepted spin (less the
\* one in flight); the state is not IDLE while a spin is in flight, and once
\* the API has answered the running spin always comes to its end in state IDLE
C30_OneSpinInFlight ==
    /\ [][(((HandleSpinDuringSpin \/ DelayedHandleSpin)
               /\ pc # "idle" /\ currentState # "IDLE") =>
              (/\ shownErrors' = Append(shownErrors,
                                        "Cannot spin - game not in idle state")
               /\ UNCHANGED <<apiCall, mockVars, currentState, previousState,
                              balance, freeSpinsRemaining, totalSpins,
                              currentSpinData, pc, tumbleCursor, gmGrid,
                              emitted, exchanges>>))
           /\ (spinCounter' + (IF apiCall'.status = "pending" THEN 1 ELSE 0)
                  = AcceptedSpins')
           /\ (pc' # "idle" => currentState' # "IDLE")]_vars
    /\ (pc # "idle" /\ apiCall.status # "pending")
           ~> (pc = "idle" /\ currentState = "IDLE")

\* the spin button was pressed while the first spin waited for the API, the
\* error was shown, and the spin has come to its end: one spin counted, one
\* call answered by the API
C30_Witness ==
    /\ shownErrors = <<"Cannot spin - game not in idle state">>
    /\ ~\E i \in DOMAIN emitted : emitted[i].name = "autoplayStart"
    /\ pc = "idle" /\ currentState = "IDLE"
    /\ totalSpins = 1 /\ spinCounter = 1
    /\ spinEnabled

(***************************************************************************)
(* C31: a failed spin leaves the game unplayable.                          *)
(***************************************************************************)
\* the messages handleSpin shows for a spin that failed after it was accepted
FailureMessages ==
    {"Spin request failed: Network error - please check your connection",
     "playback failed"}

\* an accepted spin has failed in this session
Failed == \E i \in DOMAIN shownErrors : shownErrors[i] \in FailureMessages

NewEvents == SubSeq(emitted', Len(emitted) + 1, Len(emitted'))

\* the states a step sets, in order
StatesSet ==
    LET changes == SelectSeq(NewEvents, LAMBDA e : e.name = "stateChanged")
    IN  [i \in DOMAIN changes |-> changes[i].to]

\* a step emits the event of this name
Emits(name) == \E i \in DOMAIN NewEvents : NewEvents[i].name = name

\* the points of a tumble step's playback before its removal
StepStart == {"awaitHighlight", "awaitMultiplierShow", "awaitRemove"}

\* the points after the last tumble step
SpinEnd == {"awaitFinalWin", "awaitTrigger", "idle"}

\* the order of the points a spin passes through
SpinOrder ==
    ({"idle"} \X {"awaitApi"})
    \cup ({"awaitApi"} \X {"awaitPopulate"})
    \cup ({"awaitPopulate"} \X (StepStart \cup {"idle"}))
    \cup ({"awaitHighlight"} \X {"awaitMultiplierShow", "awaitRemove"})
    \cup ({"awaitMultiplierShow"} \X {"awaitRemove"})
    \cup ({"awaitRemove"} \X {"awaitTumbleDelay"})
    \cup ({"awaitTumbleDelay"} \X {"awaitRefill"})
    \cup ({"awaitRefill"} \X (StepStart \cup SpinEnd))
    \cup ({"awaitFinalWin"} \X {"awaitTrigger", "idle"})
    \cup ({"awaitTrigger"} \X {"idle"})

\* the states the spin sets on its way from one point to the next
StatesOnTheWay(from, to) ==
    (IF from \in {"awaitPopulate", "awaitRefill"} /\ to \in StepStart
         THEN <<"CHECKING_WIN">> ELSE <<>>)
    \o (IF to = "awaitApi" THEN <<"SPINNING">>
        ELSE IF to = "awaitRemove" THEN <<"TUMBLING">>
        ELSE IF to = "awaitTrigger" THEN <<"FREE_SPINS">>
        ELSE IF to = "idle" THEN <<"IDLE">>
        ELSE <<>>)

SessionJustTriggered ==
    /\ exchanges # <<>>
    /\ ~exchanges[Len(exchanges)].spinRequest.isFreeSpins
    /\ exchanges[Len(exchanges)].freeSpins.triggered

\* C33: the first free spin after a trigger in the base game is requested with
\* accumulatedMultiplier = 1: once the triggering spin has ended the field
\* requestSpin sends is 1, and so is the value in the request of the spin
\* that follows it
C33_SessionStartsFromBaseMultiplier ==
    /\ (SessionJustTriggered /\ pc = "idle") => freeSpinsAccumulatedMultiplier = 1
    /\ (SessionJustTriggered /\ apiCall.status = "pending")
           => apiCall.spinRequest.accumulatedMultiplier = 1

(***************************************************************************)
(* C34: autoplay that was switched off starts no spin.                     *)
(***************************************************************************)
\* C34: while autoplay is off no automatic spin starts: when the timer of
\* handleSpin's delayedCall fires with autoplayEnabled false, no requestSpin
\* is accepted and no API call is made
C34_NoAutomaticSpinAfterStop ==
    [][(~autoplayEnabled /\ scheduled' < scheduled) =>
          (apiCall' = apiCall /\ pc' = pc /\ currentState' = currentState)]_vars

(***************************************************************************)
(* C35: the demo balance.                                                  *)
(***************************************************************************)
\* C35: MockGameAPI.balance is never negative; a paid spin is requested only
\* when the API's balance covers its stake, at the bet and the ante setting
\* the request carries; and whenever no spin is running after the first one
\* the state manager's balance is the API's
C35_BalanceNeverNegative ==
    /\ mockBalance >= 0
    /\ (apiCall.status = "pending" /\ ~apiCall.spinRequest.isFreeSpins) =>
           mockBalance >= Stake(apiCall.spinRequest.betAmount, apiCall.spinRequest.anteBet)
    /\ (sessionStarted /\ pc = "idle") => balance = mockBalance

\* the balance no longer covers the stake after paid spins at a raised bet
\* with the ante bet on, and no free spin is left: the next spin is refused
C35_Witness ==
    /\ pc = "idle" /\ currentState = "IDLE"
    /\ totalSpins > 0
    /\ anteBetEnabled
    /\ freeSpinsRemaining = 0
    /\ balance = mockBalance
    /\ mockBalance < Stake(currentBet, anteBetEnabled)

(***************************************************************************)
(* C36: the bet changes only between spins and only along the bet levels.  *)
(***************************************************************************)
\* C36: currentBet changes only in state IDLE with no spin running, to an
\* amount within [MIN_BET, MAX_BET], together with one betChanged event of
\* that amount; a setBet that throws (state not IDLE, or amount out of range)
\* changes neither currentBet nor the events; the request of a running spin
\* carries the current bet; and under the bet buttons currentBet is always one
\* of BET_LEVELS, each accepted press moving it to the neighbouring level
C36_BetChangesOnlyWhenIdle ==
    /\ [][ /\ ((currentBet' # currentBet \/ BetEvents' # BetEvents) =>
                (/\ currentState = "IDLE" /\ pc = "idle"
                 /\ currentBet' >= MIN_BET /\ currentBet' <= MAX_BET
                 /\ emitted' = Append(emitted, [name |-> "betChanged",
                                                amount |-> currentBet'])
                 /\ Abs(IndexOf(currentBet') - IndexOf(currentBet)) = 1))
           /\ ((uncaught' # uncaught) =>
                (/\ currentBet' = currentBet /\ emitted' = emitted
                 /\ \E message \in {IF currentState # "IDLE"
                                         THEN "Cannot change bet while game is running"
                                         ELSE "Invalid bet amount"} :
                        uncaught' = Append(uncaught, message)))
         ]_vars
    /\ [](IndexOf(currentBet) > 0)
    /\ [](apiCall.status = "pending" => apiCall.spinRequest.betAmount = currentBet)

\* the highest level was reached by eight accepted presses, a spin was played
\* at it, and a setBet out of range has thrown
C36_Witness ==
    /\ currentBet = MAX_BET
    /\ Len(BetEvents) = 8
    /\ totalSpins = 1
    /\ uncaught = <<"Invalid bet amount">>

(***************************************************************************)
(* C37: the state manager and the resolver agree on the multiplier.        *)
(***************************************************************************)
\* the sum of the multiplier values listed in the tumble steps
RECURSIVE SumOfSteps(_)
SumOfSteps(tumbles) ==
    IF Len(tumbles) = 0 THEN 0
    ELSE SumValues(Head(tumbles).multipliers) + SumOfSteps(Tail(tumbles))

\* the request of the spin whose result is being played or was played last
LastRequest == exchanges[Len(exchanges)].spinRequest

\* C37: when a free spin that did not trigger has ended, the accumulated
\* multiplier is the one sent plus the sum of the multiplier values of the
\* result's tumble steps, and that is the result's finalMultiplier when the
\* result lists a multiplier; during and after a base-game spin's playback
\* the accumulated multiplier is the one sent (until triggerFreeSpins, for a
\* spin that triggers with tumbles)
C37_MultiplierAgreesWithResolver ==
    /\ (pc = "idle" /\ exchanges # <<>> /\ LastRequest.isFreeSpins
            /\ ~currentSpinData.freeSpins.triggered) =>
           /\ freeSpinsAccumulatedMultiplier =
                  LastRequest.accumulatedMultiplier + SumOfSteps(currentSpinData.tumbles)
           /\ (Len(currentSpinData.winData.multipliers) > 0 =>
                  freeSpinsAccumulatedMultiplier = currentSpinData.winData.finalMultiplier)
    /\ (pc # "awaitApi" /\ exchanges # <<>> /\ ~LastRequest.isFreeSpins
            /\ ~(currentSpinData.freeSpins.triggered /\ pc \in {"awaitTrigger", "idle"})) =>
           freeSpinsAccumulatedMultiplier = LastRequest.accumulatedMultiplier

\* a free spin of two tumble steps around one bomb has ended: values 3 and 2
\* were added to the multiplier sent
C37_Witness ==
    /\ pc = "idle" /\ exchanges # <<>>
    /\ LastRequest.isFreeSpins
    /\ ~currentSpinData.freeSpins.triggered
    /\ Len(currentSpinData.tumbles) = 2
    /\ SumOfSteps(currentSpinData.tumbles) = 5
    /\ freeSpinsAccumulatedMultiplier = LastRequest.accumulatedMultiplier + 5

(***************************************************************************)
(* C38: the playback shows the resolver's grids.                           *)
(***************************************************************************)
\* the resolver's grid after the first k tumble steps of the result played
ResolverGridAfter(k) ==
    Replay(currentSpinData.grid, SubSeq(currentSpinData.tumbles, 1, k))

\* the tumble step being played
PlayedStep == currentSpinData.tumbles[tumbleCursor]

\* C38: once a result is played the displayed grid has no empty cell and is
\* the result's initial grid with every step's newSymbols put in, in order;
\* after populateGrid it is the result's grid; before a step's removal it is
\* the resolver's grid of that step, so every cell of the step's clusters
\* shows the cluster's symbol; removeSymbols empties the listed cells and
\* updateGrid fills the listed cells, and neither changes another cell;
\* clearGrid leaves every cell empty
C38_PlaybackReproducesResolverGrid ==
    /\ []((pc = "idle" /\ exchanges # <<>>) =>
             (/\ \A p \in Cells : gmGrid[p.col][p.row] # NullSprite
              /\ getGridState(gmGrid) =
                     ResolverGridAfter(Len(currentSpinData.tumbles))))
    /\ [](pc = "awaitPopulate" => getGridState(gmGrid) = currentSpinData.grid)
    /\ [](pc \in {"awaitHighlight", "awaitMultiplierShow"} =>
             (/\ getGridState(gmGrid) = ResolverGridAfter(tumbleCursor - 1)
              /\ \A i \in DOMAIN PlayedStep.clusters :
                    \A p \in ClusterCells(PlayedStep.clusters[i]) :
                        gmGrid[p.col][p.row] = Sprite(PlayedStep.clusters[i].symbolId)))
    /\ [](\A p \in Cells : clearGrid[p.col][p.row] = NullSprite /\ sessionStarted \in BOOLEAN)
    /\ [][ /\ ((pc' = "awaitRemove" /\ pc # pc') =>
                (\A p \in Cells :
                    gmGrid'[p.col][p.row] =
                        IF p \in CellsOf(currentSpinData.tumbles[tumbleCursor'].removePositions)
                            THEN NullSprite ELSE gmGrid[p.col][p.row]))
           /\ ((pc' = "awaitRefill" /\ pc # pc') =>
                (/\ \A p \in Cells \ CellsOf(PlayedStep.newSymbols) :
                       gmGrid'[p.col][p.row] = gmGrid[p.col][p.row]
                 /\ \A i \in DOMAIN PlayedStep.newSymbols :
                       gmGrid'[PlayedStep.newSymbols[i].col][PlayedStep.newSymbols[i].row]
                           = Sprite(PlayedStep.newSymbols[i].symbolId)))
           /\ ((pc' \notin {"awaitPopulate", "awaitRemove", "awaitRefill"}) =>
                (gmGrid' = gmGrid))
         ]_vars

\* a result of two tumble steps has been played: the displayed grid is full,
\* is the resolver's final grid, and differs from the grid first shown
C38_Witness ==
    /\ pc = "idle" /\ exchanges # <<>>
    /\ Len(currentSpinData.tumbles) = 2
    /\ getGridState(gmGrid) = ResolverGridAfter(2)
    /\ getGridState(gmGrid) # currentSpinData.grid
    /\ getGridState(gmGrid) # ResolverGridAfter(1)

(***************************************************************************)
(* C39: the two cluster detectors agree.                                   *)
(***************************************************************************)
\* the grid of symbol ids with a scatter in every cell the displayed grid has
\* empty
WithEmptyAsScatter ==
    [col \in 0..(COLS - 1) |-> [row \in 0..(ROWS - 1) |->
        IF gmGrid[col][row] = NullSprite THEN SCATTER ELSE inGrid[col][row]]]

\* C39: on a fully populated grid GridManager.detectClusters returns the
\* clusters MockGameAPI.detectClusters returns on the grid of symbol ids: the
\* same symbols, positions, sizes and order; on a grid with empty cells it
\* returns what MockGameAPI.detectClusters returns with a scatter in each
\* empty cell: an empty cell belongs to no cluster and connects none
C39_DetectorsAgree ==
    /\ ({"mock", "grid"} \subseteq called /\ "remove" \notin called) =>
           gmClusters = outClusters
    /\ ({"grid", "remove"} \subseteq called) =>
           gmClusters = detectClusters(WithEmptyAsScatter)

\* both detectors have searched a full grid and returned the same cluster,
\* which is not a rectangle and lies on a grid with scatters or multipliers
C39_Witness ==
    /\ {"mock", "grid"} \subseteq called /\ "remove" \notin called
    /\ gmClusters = outClusters
    /\ \E i \in DOMAIN gmClusters :
          LET cells == ClusterCells(gmClusters[i])
              cols == {p.col : p \in cells}
              rows == {p.row : p \in cells}
          IN  /\ Cardinality(cols) > 1 /\ Cardinality(rows) > 1
              /\ gmClusters[i].size < Cardinality(cols) * Cardinality(rows)
    /\ \E p \in Cells : IsSpecial(inGrid[p.col][p.row])

====
